---- MODULE Spec2Model ----
(***************************************************************************)
(* Privacy Fortress: the masking pipeline, the tokenizer, the confidence   *)
(* merger, the prompt shield and the chat orchestrator.                    *)
(*                                                                         *)
(* Text is a sequence of units.  A unit is a string spelled as the         *)
(* characters it stands for: a word ("Alice"), one whitespace character    *)
(* (" "), or one piece of a token ("[", "USER", "_", "1", "]").  Offsets   *)
(* into a text count units, 0-based and half open like Python slices;      *)
(* substring search and replacement work on unit boundaries.  Character    *)
(* lengths (len(...)) are the summed lengths of the units.                 *)
(***************************************************************************)
EXTENDS Integers, Sequences, FiniteSets, TLC

VARIABLES
    tok,        \* _pipelines: session id -> the Tokenizer of its cached pipeline
    vault,      \* RedisVault: session id -> stored mappings and remaining TTL
    history,    \* MongoDB messages collection: session id -> stored messages
    turn,       \* the chat turn in flight (locals of the route coroutine)
    llm,        \* the last request made to the LLM completion API
    flagged,    \* per session, the messages the prompt shield flagged
    last,       \* the last tokenizer / pipeline call and what it returned
    firstTok,   \* per session, normalized value -> token first returned for it
    dets,       \* the three detection lists handed to merge_and_score
    merged,     \* the list merge_and_score returned
    encrypted_profiles, \* MongoDB encrypted_profiles: the user's document
    forget,     \* the forget_me coroutine: where it is and its cursor
    workers     \* per worker process: its turn of session "A" and its pipeline

vars == <<tok, vault, history, turn, llm, flagged, last, firstTok, dets, merged,
          encrypted_profiles, forget,
          workers>>

(***************************************************************************)
(* Bounds of the model.                                                    *)
(***************************************************************************)
MaxCounter == 3        \* a per-type counter is not advanced beyond this
MaxDets == 3           \* detections handed to one merge_and_score call
MaxHist == 4           \* stored messages of a session (two per turn)
TtlTicks == 2          \* the vault TTL (VAULT_TTL_SECONDS) in ticks of the clock
MaxStreamLen == 5      \* units of one streamed completion (full_response)
MaxNumbers == 8        \* CARDINAL entities inside one regex match

Sessions == {"A", "B"}

(***************************************************************************)
(* Strings.                                                                *)
(***************************************************************************)
Min(a, b) == IF a < b THEN a ELSE b
Max(a, b) == IF a > b THEN a ELSE b

\* str.isspace() of one unit
IsSpace(u) == u \in {" ", "\t", "\n"}

\* str.lower() of one unit
LowerUnit(u) ==
    CASE u = "Alice" -> "alice"
      [] u = "ALICE" -> "alice"
      [] u = "Bob" -> "bob"
      [] u = "Carol" -> "carol"
      [] u = "MIT" -> "mit"
      [] u = "Met" -> "met"
      [] u = "Acme" -> "acme"
      [] u = "Hello" -> "hello"
      [] u = "First" -> "first"
      [] u = "Ignore previous" -> "ignore previous"
      [] u = "USER" -> "user"
      [] u = "User" -> "user"
      [] u = "OTHER" -> "other"
      [] u = "COLLEGE" -> "college"
      [] u = "EMAIL" -> "email"
      [] u = "BLOCKED" -> "blocked"
      [] u = "REDACTED" -> "redacted"
      [] OTHER -> u

\* str.lower()
Lower(t) == [i \in 1..Len(t) |-> LowerUnit(t[i])]

\* len(str)
RECURSIVE StrLen(_)
StrLen(t) == IF t = <<>> THEN 0 ELSE Len(Head(t)) + StrLen(Tail(t))

\* t[:k] and t[k:] with Python's clamping of the index
Take(t, k) == SubSeq(t, 1, Min(Max(k, 0), Len(t)))
Drop(t, k) == SubSeq(t, Min(Max(k, 0), Len(t)) + 1, Len(t))

RECURSIVE LStrip(_)
LStrip(t) == IF t # <<>> /\ IsSpace(Head(t)) THEN LStrip(Tail(t)) ELSE t

RECURSIVE RStrip(_)
RStrip(t) ==
    IF t # <<>> /\ IsSpace(t[Len(t)]) THEN RStrip(SubSeq(t, 1, Len(t) - 1)) ELSE t

\* str.strip()
Strip(t) == RStrip(LStrip(t))

\* pat occurs in t at 0-based offset i
MatchAt(t, pat, i) ==
    /\ i >= 0
    /\ i + Len(pat) <= Len(t)
    /\ \A k \in 1..Len(pat) : t[i + k] = pat[k]

\* str.find(pat, from): the lowest offset >= from, or -1
RECURSIVE FindFrom(_, _, _)
FindFrom(t, pat, from) ==
    IF from + Len(pat) > Len(t) THEN -1
    ELSE IF MatchAt(t, pat, from) THEN from
    ELSE FindFrom(t, pat, from + 1)

Find(t, pat) == FindFrom(t, pat, 0)

\* pat in t
Contains(t, pat) == Find(t, pat) >= 0

\* str.replace(pat, rep): every non-overlapping occurrence, left to right
RECURSIVE Replace(_, _, _)
Replace(t, pat, rep) ==
    IF pat = <<>> THEN t
    ELSE LET i == Find(t, pat) IN
         IF i < 0 THEN t
         ELSE Take(t, i) \o rep \o Replace(Drop(t, i + Len(pat)), pat, rep)

\* re.sub(re.escape(pat), rep, t, flags=IGNORECASE)
RECURSIVE ReplaceNoCase(_, _, _)
ReplaceNoCase(t, pat, rep) ==
    IF pat = <<>> THEN t
    ELSE LET i == Find(Lower(t), Lower(pat)) IN
         IF i < 0 THEN t
         ELSE Take(t, i) \o rep \o ReplaceNoCase(Drop(t, i + Len(pat)), pat, rep)

\* str.split(): the maximal runs of non-whitespace units, as [start, text]
RECURSIVE SplitFrom(_, _, _)
SplitFrom(t, i, cur) ==
    IF i > Len(t)
    THEN IF cur = <<>> THEN <<>> ELSE <<cur>>
    ELSE IF IsSpace(t[i])
         THEN (IF cur = <<>> THEN <<>> ELSE <<cur>>) \o SplitFrom(t, i + 1, <<>>)
         ELSE SplitFrom(t, i + 1, Append(cur, t[i]))

Split(t) == SplitFrom(t, 1, <<>>)

\* ' '.join(words)
RECURSIVE Join(_)
Join(ws) ==
    IF ws = <<>> THEN <<>>
    ELSE IF Len(ws) = 1 THEN ws[1]
    ELSE ws[1] \o <<" ">> \o Join(Tail(ws))

(***************************************************************************)
(* Tokenizer (middleware/tokenizer.py).                                    *)
(***************************************************************************)
\* Tokenizer.TOKEN_PREFIXES.get(entity_type, 'OTHER'), for the entity types
\* of the model
TOKEN_PREFIXES(entity_type) ==
    CASE entity_type = "USER" -> "USER"
      [] entity_type = "ORG" -> "ORG"
      [] entity_type = "COLLEGE" -> "COLLEGE"
      [] entity_type = "EMAIL" -> "EMAIL"
      [] entity_type = "CREDIT_CARD" -> "CARD"
      [] entity_type = "NUMBER" -> "NUM"
      [] entity_type = "OTHER" -> "OTHER"
      [] OTHER -> "OTHER"

\* The entity types the engines emit that the model draws from: USER, ORG,
\* COLLEGE (fuzzy), EMAIL, CREDIT_CARD (regex), NUMBER, ORDINAL, OTHER (NER:
\* ENTITY_MAPPING maps ORDINAL to 'ORDINAL' and unknown labels to 'OTHER').
EntityTypes == {"USER", "ORG", "COLLEGE", "EMAIL", "CREDIT_CARD", "NUMBER",
                "ORDINAL", "OTHER"}

\* str(n) and int(s) for the counters of the model
Digits == <<"1", "2", "3", "4", "5", "6", "7", "8", "9">>
NumStr(n) == Digits[n]
IsNumStr(u) == \E n \in 1..Len(Digits) : Digits[n] = u
ParseInt(u) == CHOOSE n \in 1..Len(Digits) : Digits[n] = u

\* f"[{prefix}_{counter}]"
TokenStr(prefix, counter) == <<"[", prefix, "_", NumStr(counter), "]">>

\* Tokenizer.__init__
NewTokenizer ==
    [type_counters |-> [ty \in EntityTypes |-> 0],
     value_to_token |-> <<>>,
     token_to_value |-> <<>>]

\* value.strip().lower()
Normalize(value) == Lower(Strip(value))

\* dict assignment d[k] = v on a dict kept as the sequence of its items, in
\* insertion order: an existing key keeps its place
RECURSIVE DictSet(_, _, _)
DictSet(d, k, v) ==
    IF d = <<>> THEN <<[key |-> k, val |-> v]>>
    ELSE IF Head(d).key = k THEN <<[key |-> k, val |-> v]>> \o Tail(d)
    ELSE <<Head(d)>> \o DictSet(Tail(d), k, v)

DictKeys(d) == {d[i].key : i \in 1..Len(d)}
DictHas(d, k) == k \in DictKeys(d)
DictGet(d, k) == (CHOOSE i \in 1..Len(d) : d[i].key = k)
DictVal(d, k) == d[DictGet(d, k)].val

\* generate_token keyed by value.lower(), the strip() forgotten
generate_token_nostrip(T, entity_type, value) ==
    LET normalized == Lower(value) IN
    IF DictHas(T.value_to_token, normalized)
    THEN [tk |-> T, token |-> DictVal(T.value_to_token, normalized)]
    ELSE LET prefix == TOKEN_PREFIXES(entity_type)
             counter == T.type_counters[entity_type] + 1
             token == TokenStr(prefix, counter)
         IN [tk |-> [type_counters |->
                        [T.type_counters EXCEPT ![entity_type] = counter],
                     value_to_token |->
                        DictSet(T.value_to_token, normalized, token),
                     token_to_value |->
                        DictSet(T.token_to_value, token,
                                [original |-> value,
                                 entity_type |-> entity_type])],
             token |-> token]

\* Tokenizer.generate_token: the tokenizer after the call and the token returned
generate_token(T, entity_type, value) ==
    LET normalized == Normalize(value) IN
    IF DictHas(T.value_to_token, normalized)
    THEN [tk |-> T, token |-> DictVal(T.value_to_token, normalized)]
    ELSE LET prefix == TOKEN_PREFIXES(entity_type)
             counter == T.type_counters[entity_type] + 1
             token == TokenStr(prefix, counter)
         IN [tk |-> [type_counters |->
                        [T.type_counters EXCEPT ![entity_type] = counter],
                     value_to_token |->
                        DictSet(T.value_to_token, normalized, token),
                     token_to_value |->
                        DictSet(T.token_to_value, token,
                                [original |-> value,
                                 entity_type |-> entity_type])],
             token |-> token]

\* sorted(entities, key=lambda e: e.start, reverse=True): stable
RECURSIVE InsertByStartDesc(_, _)
InsertByStartDesc(sorted, e) ==
    IF sorted = <<>> THEN <<e>>
    ELSE IF Head(sorted).start >= e.start
         THEN <<Head(sorted)>> \o InsertByStartDesc(Tail(sorted), e)
         ELSE <<e>> \o sorted

RECURSIVE SortByStartDesc(_)
SortByStartDesc(es) ==
    IF es = <<>> THEN <<>>
    ELSE InsertByStartDesc(SortByStartDesc(SubSeq(es, 1, Len(es) - 1)),
                           es[Len(es)])

\* the loop of Tokenizer.mask_text over sorted_entities; acc is
\* [tk, masked_text, used]
RECURSIVE MaskLoop(_, _)
MaskLoop(acc, es) ==
    IF es = <<>> THEN acc
    ELSE LET entity == Head(es)
             g == generate_token(acc.tk, entity.entity_type, entity.text)
             spliced == Take(acc.masked_text, entity.start) \o g.token
                        \o Drop(acc.masked_text, entity.end)
         IN MaskLoop([tk |-> g.tk,
                      masked_text |-> spliced,
                      used |-> IF DictHas(g.tk.token_to_value, g.token)
                               THEN acc.used \cup {g.token}
                               ELSE acc.used],
                     Tail(es))

\* Tokenizer.mask_text (the positions lists, which nothing reads back, are
\* not kept)
mask_text(T, text, entities) ==
    IF entities = <<>>
    THEN [tk |-> T, masked_text |-> text, used |-> {}]
    ELSE MaskLoop([tk |-> T, masked_text |-> text, used |-> {}],
                  SortByStartDesc(entities))

\* sorted(keys, key=len, reverse=True): stable
RECURSIVE InsertByLenDesc(_, _)
InsertByLenDesc(sorted, k) ==
    IF sorted = <<>> THEN <<k>>
    ELSE IF StrLen(Head(sorted)) >= StrLen(k)
         THEN <<Head(sorted)>> \o InsertByLenDesc(Tail(sorted), k)
         ELSE <<k>> \o sorted

RECURSIVE SortByLenDesc(_)
SortByLenDesc(ks) ==
    IF ks = <<>> THEN <<>>
    ELSE InsertByLenDesc(SortByLenDesc(SubSeq(ks, 1, Len(ks) - 1)), ks[Len(ks)])

RECURSIVE UnmaskLoop(_, _, _)
UnmaskLoop(T, unmasked, tokens) ==
    IF tokens = <<>> THEN unmasked
    ELSE LET token == Head(tokens) IN
         UnmaskLoop(T,
                    IF Contains(unmasked, token)
                    THEN Replace(unmasked, token,
                                 DictVal(T.token_to_value, token).original)
                    ELSE unmasked,
                    Tail(tokens))

\* unmask_text that also removes the tokens of number 1 it has no mapping for
unmask_text_drop(T, masked_text) ==
    LET RECURSIVE Drop1(_, _)
        Drop1(t, types) ==
            IF types = <<>> THEN t
            ELSE Drop1(Replace(t, TokenStr(Head(types), 1), <<>>), Tail(types))
    IN Drop1(UnmaskLoop(T, masked_text,
                        SortByLenDesc([i \in 1..Len(T.token_to_value) |->
                                          T.token_to_value[i].key])),
             <<"USER", "ORG", "COLLEGE", "EMAIL">>)

\* Tokenizer.unmask_text
unmask_text(T, masked_text) ==
    UnmaskLoop(T, masked_text,
               SortByLenDesc([i \in 1..Len(T.token_to_value) |->
                                 T.token_to_value[i].key]))

\* Tokenizer.export_mappings: token -> {original, entity_type}
export_mappings(T) == T.token_to_value

\* int(token.split('_')[-1].rstrip(']')), 0 when it raises ValueError
RECURSIVE AfterLastUnderscore(_)
AfterLastUnderscore(token) ==
    IF \E i \in 1..Len(token) : token[i] = "_"
    THEN AfterLastUnderscore(Tail(token))
    ELSE token

RECURSIVE RStripBracket(_)
RStripBracket(t) ==
    IF t # <<>> /\ t[Len(t)] = "]" THEN RStripBracket(SubSeq(t, 1, Len(t) - 1))
    ELSE t

TokenCounter(token) ==
    LET digits == RStripBracket(AfterLastUnderscore(token)) IN
    IF Len(digits) = 1 /\ IsNumStr(digits[1]) THEN ParseInt(digits[1]) ELSE 0

\* Tokenizer.load_mappings
RECURSIVE load_mappings(_, _)
load_mappings(T, mappings) ==
    IF mappings = <<>> THEN T
    ELSE LET token == Head(mappings).key
             data == Head(mappings).val
             normalized == Normalize(data.original)
             counter == TokenCounter(token)
         IN load_mappings(
              [type_counters |->
                  [T.type_counters EXCEPT ![data.entity_type] = Max(@, counter)],
               value_to_token |-> DictSet(T.value_to_token, normalized, token),
               token_to_value |->
                  DictSet(T.token_to_value, token,
                          [original |-> data.original,
                           entity_type |-> data.entity_type])],
              Tail(mappings))

(***************************************************************************)
(* Confidence merger (middleware/confidence.py).  A raw confidence is kept *)
(* in hundredths and a source weight in tenths, so a weighted confidence   *)
(* is in thousandths; a score is the exact fraction num / den of           *)
(* thousandths, where the code computes in floating point.                 *)
(***************************************************************************)
\* ConfidenceScorer.SOURCE_WEIGHTS.get(source, 0.5), in tenths
SOURCE_WEIGHTS(source) ==
    CASE source = "regex" -> 10
      [] source = "spacy" -> 9
      [] source = "fuzzy" -> 7
      [] OTHER -> 5

\* ConfidenceScorer.TYPE_PRIORITIES.get(entity_type, 1)
TYPE_PRIORITIES(entity_type) ==
    CASE entity_type \in {"USER", "EMAIL", "AADHAAR", "PAN", "CREDIT_CARD",
                          "SSN"} -> 10
      [] entity_type \in {"PHONE", "BANK_ACCOUNT", "PASSPORT"} -> 9
      [] entity_type \in {"ADDRESS", "DOB"} -> 8
      [] entity_type \in {"ORG", "COLLEGE", "IP_ADDRESS", "VEHICLE_REG"} -> 7
      [] entity_type \in {"LOCATION", "ROLL_NUMBER", "EMPLOYEE_ID"} -> 6
      [] entity_type = "URL" -> 5
      [] entity_type = "DATE" -> 4
      [] entity_type = "MONEY" -> 3
      [] entity_type = "NUMBER" -> 2
      [] entity_type = "OTHER" -> 1
      [] OTHER -> 1

\* ConfidenceScorer.MIN_CONFIDENCE, in thousandths
MIN_CONFIDENCE == 500

\* the cap min(best_score, 0.99), in thousandths
MAX_CONFIDENCE == 990

\* a.num / a.den > b.num / b.den
FracGt(a, b) == a.num * b.den > b.num * a.den
FracGe(a, b) == a.num * b.den >= b.num * a.den
Frac(n) == [num |-> n, den |-> 1]

\* sorted(entities, key=lambda e: (e.start, -e.end)): stable
RECURSIVE InsertBySpan(_, _)
InsertBySpan(sorted, e) ==
    IF sorted = <<>> THEN <<e>>
    ELSE LET h == Head(sorted) IN
         IF h.start < e.start \/ (h.start = e.start /\ h.end >= e.end)
         THEN <<h>> \o InsertBySpan(Tail(sorted), e)
         ELSE <<e>> \o sorted

RECURSIVE SortBySpan(_)
SortBySpan(es) ==
    IF es = <<>> THEN <<>>
    ELSE InsertBySpan(SortBySpan(SubSeq(es, 1, Len(es) - 1)), es[Len(es)])

\* the sweep of _group_overlapping with current_end replaced by the end of
\* the entity just added (the max() forgotten)
RECURSIVE GroupSweepNoMax(_, _, _, _)
GroupSweepNoMax(groups, current_group, current_end, rest) ==
    IF rest = <<>> THEN Append(groups, current_group)
    ELSE LET entity == Head(rest) IN
         IF entity.start < current_end
         THEN GroupSweepNoMax(groups, Append(current_group, entity),
                              entity.end, Tail(rest))
         ELSE GroupSweepNoMax(Append(groups, current_group), <<entity>>,
                              entity.end, Tail(rest))

\* the sweep of ConfidenceScorer._group_overlapping
RECURSIVE GroupSweep(_, _, _, _)
GroupSweep(groups, current_group, current_end, rest) ==
    IF rest = <<>> THEN Append(groups, current_group)
    ELSE LET entity == Head(rest) IN
         IF entity.start < current_end
         THEN GroupSweep(groups, Append(current_group, entity),
                         Max(current_end, entity.end), Tail(rest))
         ELSE GroupSweep(Append(groups, current_group), <<entity>>,
                         entity.end, Tail(rest))

\* ConfidenceScorer._group_overlapping
group_overlapping(entities) ==
    IF entities = <<>> THEN <<>>
    ELSE LET sorted_entities == SortBySpan(entities) IN
         GroupSweep(<<>>, <<sorted_entities[1]>>, sorted_entities[1].end,
                    Tail(sorted_entities))

\* the first loop of _score_group: type_scores, a dict in insertion order
RECURSIVE TypeScores(_, _)
TypeScores(type_scores, group) ==
    IF group = <<>> THEN type_scores
    ELSE LET entity == Head(group)
             key == entity.entity_type
             weighted_confidence ==
                 entity.confidence * SOURCE_WEIGHTS(entity.source)
         IN IF ~DictHas(type_scores, key)
            THEN TypeScores(
                   DictSet(type_scores, key,
                           [text |-> entity.text, start |-> entity.start,
                            end |-> entity.end,
                            confidence_sum |-> weighted_confidence,
                            count |-> 1, sources |-> <<entity.source>>,
                            max_text_len |-> StrLen(entity.text)]),
                   Tail(group))
            ELSE LET old == DictVal(type_scores, key)
                     longer == StrLen(entity.text) > old.max_text_len
                 IN TypeScores(
                      DictSet(type_scores, key,
                              [text |-> IF longer THEN entity.text ELSE old.text,
                               start |-> IF longer THEN entity.start
                                         ELSE old.start,
                               end |-> IF longer THEN entity.end ELSE old.end,
                               confidence_sum |->
                                   old.confidence_sum + weighted_confidence,
                               count |-> old.count + 1,
                               sources |->
                                   IF \E i \in 1..Len(old.sources) :
                                         old.sources[i] = entity.source
                                   THEN old.sources
                                   ELSE Append(old.sources, entity.source),
                               max_text_len |->
                                   IF longer THEN StrLen(entity.text)
                                   ELSE old.max_text_len]),
                      Tail(group))

\* final_score = (confidence_sum / count) * (1 + 0.1 * (count - 1))
\*               * (1 + TYPE_PRIORITIES / 10)
FinalScore(entity_type, scores) ==
    [num |-> scores.confidence_sum * (9 + scores.count)
             * (10 + TYPE_PRIORITIES(entity_type)),
     den |-> scores.count * 100]

\* the second loop of _score_group: best is [best_type, best_score], the
\* type "" standing for None
RECURSIVE BestType(_, _)
BestType(best, type_scores) ==
    IF type_scores = <<>> THEN best
    ELSE LET final_score == FinalScore(Head(type_scores).key,
                                       Head(type_scores).val)
         IN BestType(IF FracGt(final_score, best.best_score)
                     THEN [best_type |-> Head(type_scores).key,
                           best_score |-> final_score]
                     ELSE best,
                     Tail(type_scores))

\* ConfidenceScorer._score_group: the sequence holding the scored entity, or
\* the empty sequence for None
score_group(group) ==
    IF group = <<>> THEN <<>>
    ELSE IF Len(group) = 1
    THEN LET entity == group[1] IN
         <<[text |-> entity.text, entity_type |-> entity.entity_type,
            start |-> entity.start, end |-> entity.end,
            confidence |->
                Frac(entity.confidence * SOURCE_WEIGHTS(entity.source)),
            sources |-> <<entity.source>>,
            priority |-> TYPE_PRIORITIES(entity.entity_type)]>>
    ELSE LET type_scores == TypeScores(<<>>, group)
             best == BestType([best_type |-> "", best_score |-> Frac(0)],
                              type_scores)
         IN IF best.best_type = "" THEN <<>>
            ELSE LET scores == DictVal(type_scores, best.best_type) IN
                 <<[text |-> scores.text, entity_type |-> best.best_type,
                    start |-> scores.start, end |-> scores.end,
                    confidence |->
                        IF FracGt(best.best_score, Frac(MAX_CONFIDENCE))
                        THEN Frac(MAX_CONFIDENCE) ELSE best.best_score,
                    sources |-> scores.sources,
                    priority |-> TYPE_PRIORITIES(best.best_type)]>>

\* the loop of merge_and_score over the groups
RECURSIVE ScoreGroups(_)
ScoreGroups(groups) ==
    IF groups = <<>> THEN <<>>
    ELSE LET best == score_group(Head(groups)) IN
         (IF best # <<>> /\ FracGe(best[1].confidence, Frac(MIN_CONFIDENCE))
          THEN best ELSE <<>>)
         \o ScoreGroups(Tail(groups))

\* scored_entities.sort(key=lambda e: e.start): stable
RECURSIVE InsertByStart(_, _)
InsertByStart(sorted, e) ==
    IF sorted = <<>> THEN <<e>>
    ELSE IF Head(sorted).start <= e.start
         THEN <<Head(sorted)>> \o InsertByStart(Tail(sorted), e)
         ELSE <<e>> \o sorted

RECURSIVE SortByStart(_)
SortByStart(es) ==
    IF es = <<>> THEN <<>>
    ELSE InsertByStart(SortByStart(SubSeq(es, 1, Len(es) - 1)), es[Len(es)])

\* ConfidenceScorer.merge_and_score
merge_and_score(ner_entities, regex_entities, fuzzy_entities) ==
    LET all_entities == ner_entities \o regex_entities \o fuzzy_entities IN
    IF all_entities = <<>> THEN <<>>
    ELSE SortByStart(ScoreGroups(group_overlapping(all_entities)))

(***************************************************************************)
(* Detection engines and the masking pipeline (middleware/ner_engine.py,   *)
(* regex_engine.py, fuzzy_engine.py, pipeline.py).  A detection is         *)
(* [text, entity_type, start, end, confidence, source].                    *)
(***************************************************************************)
DetectedEntity(text, entity_type, start, end, confidence, source) ==
    [text |-> text, entity_type |-> entity_type, start |-> start, end |-> end,
     confidence |-> confidence, source |-> source]

\* NEREngine.ENTITY_MAPPING.get(label, 'OTHER'), for the labels of the model
ENTITY_MAPPING(label) ==
    CASE label = "PERSON" -> "USER"
      [] label = "ORG" -> "ORG"
      [] label = "ORDINAL" -> "ORDINAL"
      [] label = "CARDINAL" -> "NUMBER"
      [] OTHER -> "OTHER"

\* the words of the model that NEREngine.EXCLUDED_TERMS holds
EXCLUDED_TERMS == {"hello", "name", "email"}

\* NEREngine._is_valid_entity: text is ent.text.lower(), and the PERSON test
\* compares it with its own lowercase
is_valid_entity(ent) ==
    LET text == Lower(ent.text)
        SENSITIVE_LABELS == {"PERSON", "ORG", "GPE"}
    IN /\ ~(ent.label \notin SENSITIVE_LABELS /\ StrLen(text) < 3)
       /\ ~(ent.label = "PERSON" /\ text = Lower(text))
       /\ ~(ent.label \in {"ORG", "GPE"}
            /\ Len(text) = 1 /\ text[1] \in EXCLUDED_TERMS)

\* NEREngine._calculate_confidence, in hundredths; a unit starts with a
\* capital when lowercasing changes it
calculate_confidence(ent, entity_type) ==
    LET base == IF entity_type \in {"USER", "ORG", "LOCATION", "DATE"}
                THEN 85 ELSE 70
        longer == IF StrLen(ent.text) > 5 THEN 5 ELSE 0
        capital == IF entity_type = "USER"
                      /\ LowerUnit(ent.text[1]) # ent.text[1] THEN 5 ELSE 0
    IN Min(base + longer + capital, 99)

\* NEREngine.detect, given doc.ents, the entities [text, label, start, end]
\* the spaCy model reports for the text
RECURSIVE ner_detect(_)
ner_detect(ents) ==
    IF ents = <<>> THEN <<>>
    ELSE LET ent == Head(ents)
             words == Split(Lower(ent.text))
             entity_type == ENTITY_MAPPING(ent.label)
             skip == \/ Len(ent.text) = 1
                        /\ LowerUnit(ent.text[1]) \in EXCLUDED_TERMS
                     \/ StrLen(ent.text) < 2
                     \/ Len(words) > 1
                        /\ \A i \in 1..Len(words) :
                              Len(words[i]) = 1
                              /\ words[i][1] \in EXCLUDED_TERMS
                     \/ ~is_valid_entity(ent)
         IN (IF skip THEN <<>>
             ELSE <<DetectedEntity(ent.text, entity_type, ent.start, ent.end,
                                   calculate_confidence(ent, entity_type),
                                   "spacy")>>)
            \o ner_detect(Tail(ents))

\* the units the EMAIL pattern of RegexEngine.PATTERNS matches
IsEmail(u) == u \in {"bob@mit.edu"}

\* RegexEngine.detect: pattern.finditer over the text, for the EMAIL
\* pattern (confidence 0.98); no other pattern matches a unit of the model
RECURSIVE regex_detect(_, _)
regex_detect(text, i) ==
    IF i >= Len(text) THEN <<>>
    ELSE (IF IsEmail(text[i + 1])
          THEN <<DetectedEntity(<<text[i + 1]>>, "EMAIL", i, i + 1, 98,
                                "regex")>>
          ELSE <<>>)
         \o regex_detect(text, i + 1)

\* FuzzyEngine._find_best_match: [type, score], score 0 for None.  The exact
\* lookup in known_entities, else the best fuzz.ratio when it reaches the
\* threshold of 85: ratio("met", "meta") = 100 * 6 / 7, kept as 86; no other
\* word of the model reaches 85 against a known entity.
find_best_match(word) ==
    LET word_lower == Lower(word)
        known == [alice |-> "USER", bob |-> "USER", mit |-> "COLLEGE",
                  meta |-> "ORG"]
    IN IF Len(word_lower) = 1 /\ word_lower[1] \in DOMAIN known
       THEN [type |-> known[word_lower[1]], score |-> 100]
       ELSE IF word_lower = <<"met">>
       THEN [type |-> known["meta"], score |-> 86]
       ELSE [type |-> "", score |-> 0]

\* FuzzyEngine.detect over text.split(); the words of the model carry no
\* punctuation for word.strip('.,!?...') to remove
RECURSIVE FuzzyWords(_, _)
FuzzyWords(text, words) ==
    IF words = <<>> THEN <<>>
    ELSE LET word == Head(words)
             match == find_best_match(word)
             start == Find(text, word)
         IN (IF StrLen(word) >= 3 /\ match.score > 0 /\ start >= 0
             THEN <<DetectedEntity(word, match.type, start, start + Len(word),
                                   match.score, "fuzzy")>>
             ELSE <<>>)
            \o FuzzyWords(text, Tail(words))

fuzzy_detect(text) ==
    IF text = <<>> \/ Strip(text) = <<>> THEN <<>>
    ELSE FuzzyWords(text, Split(text))

\* MaskingPipeline._preprocess: ' '.join(text.split())
preprocess(text) == Join(Split(text))

\* MaskingPipeline.mask on the tokenizer T, with ents the spaCy entities of
\* the preprocessed text: [tk, masked_text, used]
mask(T, text, ents) ==
    IF text = <<>> \/ Strip(text) = <<>>
    THEN [tk |-> T, masked_text |-> text, used |-> {}]
    ELSE LET cleaned_text == preprocess(text)
             scored_entities ==
                 merge_and_score(ner_detect(ents),
                                 regex_detect(cleaned_text, 0),
                                 fuzzy_detect(cleaned_text))
         IN mask_text(T, text, scored_entities)

\* MaskingPipeline.unmask
unmask(T, masked_text) == unmask_text(T, masked_text)

\* what the spaCy model may report for a text: nothing, or one entity over
\* one word of it with one of the labels
SpacyEnts(text) ==
    {<<>>} \cup
    {<<[text |-> <<text[i]>>, label |-> label, start |-> i - 1, end |-> i]>> :
        i \in {k \in 1..Len(text) : ~IsSpace(text[k])},
        label \in {"PERSON", "ORG"}}

(***************************************************************************)
(* Ephemeral vault (vault/redis_client.py) and profile recreation          *)
(* (vault/profile_vault.py).                                               *)
(***************************************************************************)
\* a session's key in the key-value store: absent, or the mappings with the
\* remaining time to live; age counts the ticks since the last store_mappings
\* or refresh_ttl of the session (0 when there was none)
NoVault == [present |-> FALSE, mappings |-> <<>>, ttl |-> 0, age |-> 0]

\* store_mappings writing with SET ... KEEPTTL: a key that is there keeps its
\* remaining time to live
store_mappings_keepttl(V, s, mappings) ==
    [V EXCEPT ![s] = [present |-> TRUE, mappings |-> mappings,
                      ttl |-> IF V[s].present THEN V[s].ttl ELSE TtlTicks,
                      age |-> 0]]

\* RedisVault.store_mappings: setex(key, self.ttl, encrypted)
store_mappings(V, s, mappings) ==
    [V EXCEPT ![s] = [present |-> TRUE, mappings |-> mappings,
                      ttl |-> TtlTicks, age |-> 0]]

\* RedisVault.refresh_ttl: if exists(key): expire(key, self.ttl)
refresh_ttl(V, s) ==
    IF V[s].present
    THEN [V EXCEPT ![s] = [@ EXCEPT !.ttl = TtlTicks, !.age = 0]]
    ELSE V

\* RedisVault.get_mappings: the decrypted mappings; None (a missing or expired
\* key) reads as the empty dict, which every caller treats alike
get_mappings(V, s) == IF V[s].present THEN V[s].mappings ELSE <<>>

\* RedisVault.delete_mappings
delete_mappings(V, s) == [V EXCEPT ![s] = NoVault]

\* the key-value store counting down and evicting: one tick of the clock
Expire(V) ==
    [s \in DOMAIN V |->
        IF V[s].present /\ V[s].ttl > 1
        THEN [V[s] EXCEPT !.ttl = @ - 1, !.age = @ + 1]
        ELSE IF V[s].present \/ V[s].age > 0
        THEN [NoVault EXCEPT !.age = Min(V[s].age + 1, TtlTicks + 1)]
        ELSE NoVault]

\* PROFILE_SCHEMA.items(), in order
PROFILE_SCHEMA ==
    <<[key |-> "name", entity_type |-> "USER"],
      [key |-> "college", entity_type |-> "COLLEGE"],
      [key |-> "email", entity_type |-> "EMAIL"]>>

\* the loop of profile_to_session_mappings from index idx on
RECURSIVE ProfileLoop(_, _)
ProfileLoop(profile, idx) ==
    IF idx > Len(PROFILE_SCHEMA) THEN <<>>
    ELSE LET value == profile[PROFILE_SCHEMA[idx].key]
             entity_type == PROFILE_SCHEMA[idx].entity_type
         IN IF Strip(value) = <<>>
            THEN ProfileLoop(profile, idx + 1)
            ELSE <<[key |-> TokenStr(entity_type, idx),
                    val |-> [original |-> Strip(value),
                             entity_type |-> entity_type]]>>
                 \o ProfileLoop(profile, idx + 1)

\* profile_to_session_mappings; a None field is the empty string
profile_to_session_mappings(profile) == ProfileLoop(profile, 1)

\* the user's document in encrypted_profiles: each field is the set holding
\* its value, empty when the document has no such field; updated_at is left
\* out.  exists is FALSE when find_one returns None.
NoDoc ==
    [exists |-> FALSE, encrypted_blob |-> {}, consent_remember |-> {},
     consent_sync |-> {}, sync_across_devices |-> {}]

\* ProfileVault.store_profile: normalize_profile, encrypt_dict, then
\* update_one({"_id": user_id}, {"$set": doc}, upsert=True)
store_profile(doc, profile, consent_remember, consent_sync) ==
    LET normalized == [k \in DOMAIN profile |-> Strip(profile[k])]
        encrypted_blob == [ciphertext_of |-> normalized]
    IN [doc EXCEPT !.exists = TRUE,
                   !.encrypted_blob = {encrypted_blob},
                   !.consent_remember = {consent_remember},
                   !.consent_sync = {consent_sync}]

\* ProfileVault.get_profile: None (here <<>>) when there is no document or
\* no blob, else the decrypted profile
get_profile(doc) ==
    IF ~doc.exists \/ doc.encrypted_blob = {} THEN <<>>
    ELSE (CHOOSE b \in doc.encrypted_blob : TRUE).ciphertext_of

\* ProfileVault.get_consent: doc.get("consent_remember", False) and
\* doc.get("consent_sync", False)
get_consent(doc) ==
    LET Get(field) == IF field = {} THEN FALSE ELSE CHOOSE v \in field : TRUE IN
    IF ~doc.exists
    THEN [remember_me |-> FALSE, sync_across_devices |-> FALSE]
    ELSE [remember_me |-> Get(doc.consent_remember),
          sync_across_devices |-> Get(doc.consent_sync)]

\* ProfileVault.update_consent with both flags given:
\* updates["consent_remember"] = remember_me,
\* updates["sync_across_devices"] = sync_across_devices, then
\* update_one({"_id": user_id}, {"$set": updates}, upsert=True)
update_consent(doc, remember_me, sync_across_devices) ==
    [doc EXCEPT !.exists = TRUE,
                !.consent_remember = {remember_me},
                !.sync_across_devices = {sync_across_devices}]

(***************************************************************************)
(* State shared by the specifications.                                     *)
(***************************************************************************)
NoCall ==
    [op |-> "none", sid |-> "A", entity_type |-> "OTHER", value |-> <<>>,
     token |-> <<>>, known |-> FALSE, before |-> NewTokenizer,
     text |-> <<>>, result |-> <<>>, user_id |-> "u1"]

\* the locals of the chat route: the request message, mask_result.masked_text,
\* masked_response, the content returned, whether the prompt shield flagged
\* the message, whether the completion API was called, and the session's
\* vault entry as the turn found it; further whether the turn's
\* vault.store_mappings returned, whether the turn ended in an exception
\* (HTTP 500), what the completion API answered, and how many messages the
\* session had stored when the turn began
IdleTurn ==
    [pc |-> "idle", sid |-> "A", message |-> <<>>, masked |-> <<>>,
     response |-> <<>>, content |-> <<>>, jailbreak |-> FALSE,
     called |-> FALSE, vaultBefore |-> NoVault, stored |-> FALSE,
     error |-> FALSE, reply |-> <<>>, histLen |-> 0,
     pii_leak_detected |-> FALSE, audit |-> <<>>]

\* the messages of a completion request (their contents, in order) and the
\* originals the session's pipeline held when it was made
NoRequest == [sid |-> "A", messages |-> <<>>, originals |-> {}]

InitState ==
    /\ tok = [s \in Sessions |-> NewTokenizer]
    /\ vault = [s \in Sessions |-> NoVault]
    /\ history = [s \in Sessions |-> <<>>]
    /\ turn = IdleTurn
    /\ llm = NoRequest
    /\ flagged = [s \in Sessions |-> {}]
    /\ last = NoCall
    /\ firstTok = [s \in Sessions |-> <<>>]
    /\ dets = [ner |-> <<>>, regex |-> <<>>, fuzzy |-> <<>>]
    /\ merged = <<>>
    /\ encrypted_profiles = NoDoc
    /\ forget = [pc |-> "idle", cursor |-> <<>>]
    /\ workers = [w \in {"w1", "w2"} |->
                    [pc |-> "idle", tk |-> NewTokenizer, fault |-> "none",
                     masked |-> <<>>, loaded |-> <<>>,
                     minted |-> {}, overlapped |-> FALSE]]

(***************************************************************************)
(* SpecGen: any sequence of Tokenizer.generate_token calls.                *)
(***************************************************************************)
GenValues ==
    {<<"Alice">>, <<"alice">>, <<" ", "Alice">>, <<"Bob">>, <<"First">>}

GenTypes == {"USER", "ORDINAL", "OTHER"}

\* a call tokenizer.generate_token(entity_type, value) on session s
GenerateToken(s, entity_type, value) ==
    LET g == generate_token(tok[s], entity_type, value)
        known == DictHas(firstTok[s], Lower(Strip(value)))
    IN /\ \/ DictHas(tok[s].value_to_token, Normalize(value))
          \/ tok[s].type_counters[entity_type] < MaxCounter
       /\ tok' = [tok EXCEPT ![s] = g.tk]
       /\ last' = [NoCall EXCEPT !.op = "generate_token", !.sid = s,
                                 !.entity_type = entity_type, !.value = value,
                                 !.token = g.token, !.known = known,
                                 !.before = tok[s]]
       /\ firstTok' = IF known THEN firstTok
                      ELSE [firstTok EXCEPT
                              ![s] = DictSet(@, Lower(Strip(value)), g.token)]
       /\ UNCHANGED <<vault, history, turn, llm, flagged, dets, merged,
                   encrypted_profiles, forget, workers>>

NextGen ==
    \E entity_type \in GenTypes, value \in GenValues :
        GenerateToken("A", entity_type, value)

SpecGen == InitState /\ [][NextGen]_vars

\* C3: a generate_token call whose value equals, after trim and lowercase, the
\* value of an earlier call of the session returns the token that earlier call
\* returned, whatever entity type is passed, and leaves the counters and both
\* maps as they were.
C3_MintIdempotent ==
    (last.op = "generate_token" /\ last.known) =>
        /\ last.token = DictVal(firstTok[last.sid], Lower(Strip(last.value)))
        /\ tok[last.sid] = last.before

\* a repeated value arrives with other casing or padding and another type
C3_Witness ==
    /\ last.op = "generate_token"
    /\ last.known
    /\ DictHas(tok[last.sid].token_to_value, last.token)
    /\ DictVal(tok[last.sid].token_to_value, last.token).original # last.value
    /\ DictVal(tok[last.sid].token_to_value, last.token).entity_type
          # last.entity_type

\* C4: in every session a token is bound to exactly one original value: no two
\* normalized values share a token, and the original stored for a token
\* normalizes to a value_to_token key that maps back to the token.
C4_TokenOneValue ==
    \A s \in Sessions :
        LET T == tok[s] IN
        /\ \A i, j \in 1..Len(T.value_to_token) :
              i # j => T.value_to_token[i].val # T.value_to_token[j].val
        /\ \A i \in 1..Len(T.token_to_value) :
              LET n == Lower(Strip(T.token_to_value[i].val.original)) IN
              /\ DictHas(T.value_to_token, n)
              /\ DictVal(T.value_to_token, n) = T.token_to_value[i].key

(***************************************************************************)
(* SpecLoad: one session's tokenizer under mint, vault store and load,     *)
(* profile recreation, vault expiry and session deletion.                  *)
(***************************************************************************)
Called(op, s) == [NoCall EXCEPT !.op = op, !.sid = s]

\* the stored profiles a user may have
Profiles ==
    {[name |-> <<"Bob">>, college |-> <<"MIT">>, email |-> <<"bob@mit.edu">>],
     [name |-> <<>>, college |-> <<" ", "MIT">>, email |-> <<>>]}

\* vault.store_mappings(session_id, pipeline.export_session_mappings())
StoreMappings(s) ==
    /\ vault' = store_mappings(vault, s, export_mappings(tok[s]))
    /\ last' = Called("store", s)
    /\ UNCHANGED <<tok, history, turn, llm, flagged, firstTok, dets, merged,
                   encrypted_profiles, forget, workers>>

\* existing_mappings = vault.get_mappings(session_id); if existing_mappings:
\* pipeline.load_session_mappings(existing_mappings)
LoadSession(s) ==
    /\ get_mappings(vault, s) # <<>>
    /\ tok' = [tok EXCEPT ![s] = load_mappings(@, get_mappings(vault, s))]
    /\ last' = Called("load", s)
    /\ UNCHANGED <<vault, history, turn, llm, flagged, firstTok, dets, merged,
                   encrypted_profiles, forget, workers>>

\* the second locker: the vault returned nothing, the user has consent and a
\* profile; the recreated mappings are loaded and stored.  last.result is
\* the recreated mappings.
RecreateFromProfile(s, profile) ==
    LET recreated == profile_to_session_mappings(profile)
        T == load_mappings(tok[s], recreated)
    IN /\ get_mappings(vault, s) = <<>>
       /\ recreated # <<>>
       /\ tok' = [tok EXCEPT ![s] = T]
       /\ vault' = store_mappings(vault, s, export_mappings(T))
       /\ last' = [Called("recreate", s) EXCEPT !.result = recreated]
       /\ UNCHANGED <<history, turn, llm, flagged, firstTok, dets, merged,
                   encrypted_profiles, forget, workers>>

\* time passes: TTLs count down and expired keys are evicted
Tick ==
    /\ \E s \in Sessions :
          vault[s].present \/ (0 < vault[s].age /\ vault[s].age <= TtlTicks)
    /\ vault' = Expire(vault)
    /\ last' = Called("tick", "A")
    /\ UNCHANGED <<tok, history, turn, llm, flagged, firstTok, dets, merged,
                   encrypted_profiles, forget, workers>>

\* RedisVault.get_mappings called while the key-value store is in condition
\* fault: "none", "unreachable" (client.get raises) or "corrupt" (decrypt_dict
\* raises on the stored ciphertext).  Both exceptions end in the except
\* branch, which returns None.  last.value is the fault, last.known whether
\* None was returned, last.token the exception raised to the caller (none),
\* last.result the mappings returned.
GetMappings(s, fault) ==
    LET raises == \/ fault = "unreachable"
                  \/ (fault = "corrupt" /\ vault[s].present)
        none == raises \/ ~vault[s].present
    IN /\ last' = [Called("get", s) EXCEPT
                      !.value = <<fault>>,
                      !.known = none,
                      !.token = <<>>,
                      !.result = IF none THEN <<>> ELSE vault[s].mappings]
       /\ UNCHANGED <<tok, vault, history, turn, llm, flagged, firstTok, dets,
                      merged,
                   encrypted_profiles, forget, workers>>

\* vault.refresh_ttl(session_id); last.result tells whether the new TTL was
\* returned (the key was there) or 0
RefreshTtl(s) ==
    /\ vault' = refresh_ttl(vault, s)
    /\ last' = [Called("refresh", s) EXCEPT
                   !.known = vault[s].present]
    /\ UNCHANGED <<tok, history, turn, llm, flagged, firstTok, dets, merged,
                   encrypted_profiles, forget, workers>>

\* DELETE /sessions/{id}: vault.delete_mappings, db.delete_session,
\* clear_pipeline
DeleteSession(s) ==
    /\ vault' = delete_mappings(vault, s)
    /\ history' = [history EXCEPT ![s] = <<>>]
    /\ tok' = [tok EXCEPT ![s] = NewTokenizer]
    /\ last' = Called("delete", s)
    /\ UNCHANGED <<turn, llm, flagged, firstTok, dets, merged,
                   encrypted_profiles, forget, workers>>

LoadValues == {<<"Alice">>, <<"MIT">>}
LoadTypes == {"COLLEGE"}

NextLoad ==
    \/ \E entity_type \in LoadTypes, value \in LoadValues :
          GenerateToken("A", entity_type, value)
    \/ StoreMappings("A")
    \/ LoadSession("A")
    \/ \E profile \in Profiles : RecreateFromProfile("A", profile)
    \/ Tick
    \/ RefreshTtl("A")
    \/ \E fault \in {"none", "unreachable", "corrupt"} : GetMappings("A", fault)
    \/ DeleteSession("A")

SpecLoad == InitState /\ [][NextLoad]_vars

\* the N values of the session's tokens with the given prefix
TokenNumbers(T, prefix) ==
    {TokenCounter(T.token_to_value[i].key) :
        i \in {j \in 1..Len(T.token_to_value) :
                  T.token_to_value[j].key[2] = prefix}}

\* C5: in every reachable session state, for each token prefix, the N values
\* of the session's tokens are the contiguous set 1..k.
C5_ContiguousNumbers ==
    \A s \in Sessions :
        \A ty \in EntityTypes :
            LET N == TokenNumbers(tok[s], TOKEN_PREFIXES(ty)) IN
            N = 1..Cardinality(N)

(***************************************************************************)
(* SpecMerge: merge_and_score on any three lists of detections over one    *)
(* text.                                                                   *)
(***************************************************************************)
MergeText == <<"4111", "1111", "Bob">>

\* what an engine reports for a span: source, entity type, raw confidence
DetKinds ==
    {[source |-> "regex", entity_type |-> "CREDIT_CARD", confidence |-> 96],
     [source |-> "spacy", entity_type |-> "NUMBER", confidence |-> 70],
     [source |-> "fuzzy", entity_type |-> "USER", confidence |-> 60]}

\* the detections of at most two units of the text, an empty span included
Detections ==
    {[text |-> SubSeq(MergeText, sp[1] + 1, sp[2]),
      entity_type |-> k.entity_type, start |-> sp[1], end |-> sp[2],
      confidence |-> k.confidence, source |-> k.source] :
        sp \in {p \in (0..Len(MergeText)) \X (0..Len(MergeText)) :
                   p[1] <= p[2] /\ p[2] <= p[1] + 2},
        k \in DetKinds}

AllDets == dets.ner \o dets.regex \o dets.fuzzy

AddDetection(e) ==
    /\ last.op # "merge"
    /\ Len(dets.ner) + Len(dets.regex) + Len(dets.fuzzy) < MaxDets
    /\ dets' = CASE e.source = "spacy" -> [dets EXCEPT !.ner = Append(@, e)]
                 [] e.source = "regex" -> [dets EXCEPT !.regex = Append(@, e)]
                 [] OTHER -> [dets EXCEPT !.fuzzy = Append(@, e)]
    /\ UNCHANGED <<tok, vault, history, turn, llm, flagged, last, firstTok,
                   merged,
                   encrypted_profiles, forget, workers>>

Merge ==
    /\ last.op # "merge"
    /\ merged' = merge_and_score(dets.ner, dets.regex, dets.fuzzy)
    /\ last' = Called("merge", "A")
    /\ UNCHANGED <<tok, vault, history, turn, llm, flagged, firstTok, dets,
                   encrypted_profiles, forget, workers>>

\* RegexEngine.PATTERNS: the base confidence of every shipped pattern, in
\* hundredths
PATTERNS ==
    [EMAIL |-> 98, PHONE |-> 95, AADHAAR |-> 97, PAN |-> 98,
     CREDIT_CARD |-> 96, SSN |-> 95, IP_ADDRESS |-> 99, DOB |-> 90,
     PASSPORT |-> 75, VEHICLE_REG |-> 92, BANK_ACCOUNT |-> 88, URL |-> 85,
     ADDRESS |-> 70, ROLL_NUMBER |-> 80, EMPLOYEE_ID |-> 85]

\* merge_and_score on what the engines report for one match of a shipped
\* pattern whose span holds numbers, each of them a CARDINAL entity of
\* doc.ents; the text is that of an ADDRESS match ("12 100 100000 St"), of
\* which the merger reads the spans and the lengths only
MergeGroup(entity_type, numbers) ==
    /\ last.op # "merge"
    /\ AllDets = <<>>
    /\ LET n == Len(numbers)
           text == [i \in 1..(2 * n + 3) |->
                       IF i = 1 THEN "12"
                       ELSE IF i = 2 * n + 3 THEN "St"
                       ELSE IF i % 2 = 0 THEN " "
                       ELSE numbers[(i - 1) \div 2]]
           ents == [i \in 1..n |->
                       [text |-> <<numbers[i]>>, label |-> "CARDINAL",
                        start |-> 2 * i, end |-> 2 * i + 1]]
       IN /\ dets' = [ner |-> ner_detect(ents),
                      regex |-> <<DetectedEntity(text, entity_type, 0,
                                                 Len(text),
                                                 PATTERNS[entity_type],
                                                 "regex")>>,
                      fuzzy |-> <<>>]
          /\ merged' = merge_and_score(dets'.ner, dets'.regex, dets'.fuzzy)
    /\ last' = Called("merge", "A")
    /\ UNCHANGED <<tok, vault, history, turn, llm, flagged, firstTok,
                   encrypted_profiles, forget, workers>>

NextMerge ==
    \/ \E e \in Detections : AddDetection(e)
    \/ Merge
    \/ \E entity_type \in DOMAIN PATTERNS, long \in 0..MaxNumbers,
          short \in 0..MaxNumbers :
          /\ long + short \in 1..MaxNumbers
          /\ MergeGroup(entity_type,
                        [i \in 1..(long + short) |->
                            IF i <= long THEN "100000" ELSE "100"])

SpecMerge == InitState /\ [][NextMerge]_vars

\* C7: the list merge_and_score returns is sorted by start, and each
\* entity's end is at most the next entity's start.
C7_SortedDisjoint ==
    last.op = "merge" =>
        \A i \in 1..(Len(merged) - 1) :
            /\ merged[i].start <= merged[i + 1].start
            /\ merged[i].end <= merged[i + 1].start

\* a merge of three detections, two of them overlapping, that returns two
\* entities
C7_Witness ==
    /\ last.op = "merge"
    /\ Len(AllDets) = 3
    /\ Len(merged) = 2
    /\ \E i, j \in 1..Len(AllDets) :
          /\ i # j
          /\ AllDets[i].start < AllDets[j].end
          /\ AllDets[j].start < AllDets[i].end

(***************************************************************************)
(* SpecIso: mask, unmask, export to the vault and load from it, on the     *)
(* cached pipelines of two sessions.                                       *)
(***************************************************************************)
\* the messages masked
IsoTexts ==
    {<<"Alice">>, <<"Hello", " ", " ", "Bob">>, <<"Acme">>}

\* the texts unmasked besides the last mask result
IsoMasked ==
    {<<"[", "USER", "_", "1", "]">>,
     <<"[", "ORG", "_", "1", "]", " ", "[", "USER", "_", "1", "]">>}

\* get_masking_pipeline keyed by a constant: every session shares one
\* cache entry
pipeline_key_shared(session_id) == "A"

\* the key of get_masking_pipeline into the _pipelines cache
pipeline_key(session_id) == session_id

\* pipeline = get_masking_pipeline(s); pipeline.mask(text)
Mask(s, text, ents) ==
    \E k \in {pipeline_key(s)} : \E r \in {mask(tok[k], text, ents)} :
       /\ \A ty \in EntityTypes : r.tk.type_counters[ty] <= MaxCounter
       /\ tok' = [tok EXCEPT ![k] = r.tk]
       /\ last' = [Called("mask", s) EXCEPT !.text = text,
                                            !.result = r.masked_text]
       /\ UNCHANGED <<vault, history, turn, llm, flagged, firstTok, dets,
                      merged,
                   encrypted_profiles, forget, workers>>

\* pipeline = get_masking_pipeline(s); pipeline.unmask(m).  known records
\* that m is what the session's mask call just before returned, value the
\* text that call masked.
Unmask(s, m) ==
    LET k == pipeline_key(s)
        trip == last.op = "mask" /\ last.sid = s /\ last.result = m
    IN /\ last' = [Called("unmask", s) EXCEPT
                      !.text = m, !.result = unmask(tok[k], m),
                      !.known = trip,
                      !.value = IF trip THEN last.text ELSE <<>>]
       /\ UNCHANGED <<tok, vault, history, turn, llm, flagged, firstTok, dets,
                      merged,
                   encrypted_profiles, forget, workers>>

NextIso ==
    \/ \E s \in Sessions, text \in IsoTexts :
          \E ents \in SpacyEnts(preprocess(text)) : Mask(s, text, ents)
    \/ \E s \in Sessions, m \in IsoMasked \cup {last.result} : Unmask(s, m)
    \/ StoreMappings("A")
    \/ LoadSession("A")

SpecIso == InitState /\ [][NextIso]_vars

\* C2: unmasking what mask returned for a text free of tokens gives the text
\* back, whatever the session has minted before.
C2_RoundTrip ==
    (last.op = "unmask" /\ last.known) => last.result = last.value

\* the originals tokenizer O holds that tokenizer T has no mapping for
OnlyIn(O, T) ==
    {O.token_to_value[i].val.original :
        i \in {j \in 1..Len(O.token_to_value) :
                 ~DictHas(T.value_to_token,
                          Normalize(O.token_to_value[j].val.original))}}

\* C6: an operation on one session's pipeline leaves the tokenizer of every
\* other session as it was (maps and counters), and an unmask in a session
\* puts no value into the text that only another session has minted.
C6_SessionIsolation ==
    [][/\ \A s \in Sessions : last'.sid # s => tok'[s] = tok[s]
       /\ last'.op = "unmask" =>
             \A o \in Sessions \ {last'.sid} :
                \A v \in OnlyIn(tok'[o], tok'[last'.sid]) :
                   Contains(last'.result, v) => Contains(last'.text, v)]_vars

\* session A holds [USER_1] for Alice, and session B, which holds [USER_1]
\* for Bob, has just unmasked [USER_1]
C6_Witness ==
    /\ last.op = "unmask"
    /\ last.sid = "B"
    /\ last.text = <<"[", "USER", "_", "1", "]">>
    /\ last.result = <<"Bob">>
    /\ DictHas(tok["A"].token_to_value, last.text)
    /\ DictVal(tok["A"].token_to_value, last.text).original = <<"Alice">>

(***************************************************************************)
(* Prompt shield, response validator and the chat route                    *)
(* (llm/prompt_shield.py, llm/validator.py, llm/groq_client.py,            *)
(* routes/chat.py).                                                        *)
(***************************************************************************)
\* PromptShield.BLOCKED_PHRASES: the phrase the messages of the model hold
BLOCKED_PHRASES == {<<"ignore previous">>}

\* PromptShield.SYSTEM_PROMPT
SYSTEM_PROMPT == <<"You are a helpful, harmless, and honest AI assistant.">>

\* PromptShield.get_blocked_response: the refusal, cut so that "met" is a
\* unit of it
get_blocked_response ==
    <<"I'm sorry, but I can't help with that request. I'm designed to protect user privacy and cannot reveal, decode, or discuss the meaning of identity tokens. Is there so",
      "met", "hing else I can help you with?">>

\* PromptShield.is_jailbreak_attempt: a blocked pattern found in text.lower()
\* (no text of the model matches one of the suspicious patterns)
is_jailbreak_attempt(text) ==
    \E phrase \in BLOCKED_PHRASES : Contains(Lower(text), phrase)

\* PromptShield.sanitize_input: pattern.sub("[BLOCKED]", ...), IGNORECASE
sanitize_input(user_input) ==
    ReplaceNoCase(user_input, <<"ignore previous">>, <<"[", "BLOCKED", "]">>)

\* PromptShield.build_conversation / wrap_message: the contents, in order
build_conversation(hist, new_message) ==
    <<SYSTEM_PROMPT>> \o [i \in 1..Len(hist) |-> hist[i].content]
                      \o <<new_message>>

\* ResponseValidator.validate then sanitize: every match of a PII pattern
\* (of the model's units, the e-mail address) becomes [REDACTED]
RECURSIVE validate_sanitize(_)
validate_sanitize(response) ==
    IF response = <<>> THEN <<>>
    ELSE (IF IsEmail(Head(response)) THEN <<"[", "REDACTED", "]">>
          ELSE <<Head(response)>>)
         \o validate_sanitize(Tail(response))

\* _detect_pii_leak_in_response then _sanitize_response: when an original of
\* more than 2 characters occurs in the response, case-insensitively, every
\* such original is replaced by its token, the longest original first
RECURSIVE SanitizeLoop(_, _)
SanitizeLoop(sanitized, items) ==
    IF items = <<>> THEN sanitized
    ELSE LET original_value == Head(items).val.original IN
         SanitizeLoop(IF original_value # <<>> /\ StrLen(original_value) > 2
                      THEN ReplaceNoCase(sanitized, original_value,
                                         Head(items).key)
                      ELSE sanitized,
                      Tail(items))

\* sorted(mappings.items(), key=len(original), reverse=True): stable
RECURSIVE SortByOriginalLen(_)
SortByOriginalLen(items) ==
    IF items = <<>> THEN <<>>
    ELSE LET init == SortByOriginalLen(SubSeq(items, 1, Len(items) - 1))
             x == items[Len(items)]
             n == Cardinality({i \in 1..Len(init) :
                     StrLen(init[i].val.original) >= StrLen(x.val.original)})
         IN SubSeq(init, 1, n) \o <<x>> \o SubSeq(init, n + 1, Len(init))

\* _detect_pii_leak_in_response: an original of more than 2 characters
\* occurs in the response, case-insensitively
detect_pii_leak_in_response(response, T) ==
    /\ response # <<>>
    /\ \E i \in 1..Len(T.token_to_value) :
          LET original_value == T.token_to_value[i].val.original IN
          /\ original_value # <<>> /\ StrLen(original_value) > 2
          /\ Contains(Lower(response), Lower(original_value))

sanitize_response(response, T) ==
    IF detect_pii_leak_in_response(response, T)
    THEN SanitizeLoop(response, SortByOriginalLen(export_mappings(T)))
    ELSE response

\* db.get_session_messages(session_id, limit=10): the oldest messages first
HISTORY_LIMIT == 10

(***************************************************************************)
(* SpecChat: turns of POST /api/chat on one session, one at a time, with   *)
(* MongoDB connected (db.client set).                                      *)
(***************************************************************************)
ChatTexts ==
    {<<"Alice">>, <<"Alice", " ", "Alice">>, <<"Ignore previous", " ", "Met">>}

\* what the completion API may answer
LLMReplies == {<<"[", "USER", "_", "1", "]">>, <<"Alice">>, <<"bob@mit.edu">>}

\* routes/chat.py 171-202: the cached pipeline, the vault's mappings loaded
\* if any, the message masked, the mappings stored and audit.log_store;
\* turn.audit holds the actions of the entries the turn appends to
\* AuditLogger.logs
ChatBegin(s, message, ents) ==
    /\ turn.pc \in {"idle", "done"}
    /\ \E T \in {IF get_mappings(vault, s) # <<>>
                 THEN load_mappings(tok[s], get_mappings(vault, s))
                 ELSE tok[s]} :
       \E r \in {mask(T, message, ents)} :
       /\ Len(history[s]) + 2 <= MaxHist
       /\ \A ty \in EntityTypes : r.tk.type_counters[ty] <= MaxCounter
       /\ tok' = [tok EXCEPT ![s] = r.tk]
       /\ vault' = store_mappings(vault, s, export_mappings(r.tk))
       /\ turn' = [IdleTurn EXCEPT !.pc = "masked", !.sid = s,
                                   !.message = message,
                                   !.masked = r.masked_text,
                                   !.vaultBefore = vault[s],
                                   !.stored = TRUE,
                                   !.histLen = Len(history[s]),
                                   !.audit = <<"STORE">>]
       /\ UNCHANGED <<history, llm, flagged, last, firstTok, dets, merged,
                   encrypted_profiles, forget, workers>>

\* the exception of ChatBeginFail swallowed: the route carries on with the
\* masked message although nothing was stored
ChatBeginFailSwallowed(s, message, ents, stage) ==
    /\ turn.pc \in {"idle", "done"}
    /\ \E T \in {IF get_mappings(vault, s) # <<>>
                 THEN load_mappings(tok[s], get_mappings(vault, s))
                 ELSE tok[s]} :
       \E r \in {mask(T, message, ents)} :
       /\ \A ty \in EntityTypes : r.tk.type_counters[ty] <= MaxCounter
       /\ tok' = [tok EXCEPT ![s] = IF stage = "mask" THEN T ELSE r.tk]
       /\ turn' = [IdleTurn EXCEPT !.pc = "masked", !.sid = s,
                                   !.message = message,
                                   !.masked = r.masked_text,
                                   !.vaultBefore = vault[s],
                                   !.histLen = Len(history[s])]
       /\ UNCHANGED <<vault, history, llm, flagged, last, firstTok, dets,
                      merged,
                   encrypted_profiles, forget, workers>>

\* routes/chat.py 171-197 when pipeline.mask raises (stage "mask": the
\* loaded mappings stay in the pipeline) or vault.store_mappings raises
\* VaultException (stage "store": the minted tokens stay in the pipeline,
\* the vault is not written); the route's except turns either into HTTP 500
ChatBeginFail(s, message, ents, stage) ==
    /\ turn.pc \in {"idle", "done"}
    /\ \E T \in {IF get_mappings(vault, s) # <<>>
                 THEN load_mappings(tok[s], get_mappings(vault, s))
                 ELSE tok[s]} :
       \E r \in {mask(T, message, ents)} :
       /\ \A ty \in EntityTypes : r.tk.type_counters[ty] <= MaxCounter
       /\ tok' = [tok EXCEPT ![s] = IF stage = "mask" THEN T ELSE r.tk]
       /\ turn' = [IdleTurn EXCEPT !.pc = "done", !.sid = s,
                                   !.message = message,
                                   !.vaultBefore = vault[s],
                                   !.error = TRUE,
                                   !.histLen = Len(history[s])]
       /\ UNCHANGED <<vault, history, llm, flagged, last, firstTok, dets,
                      merged,
                   encrypted_profiles, forget, workers>>

\* chat_async returns the refusal without a request; the route checks it for
\* leaked originals and unmasks it
ChatRefuse ==
    /\ turn.pc = "masked"
    /\ is_jailbreak_attempt(turn.masked)
    /\ \E masked_response \in
           {sanitize_response(get_blocked_response, tok[turn.sid])} :
          turn' = [turn EXCEPT !.pc = "answered", !.jailbreak = TRUE,
                               !.pii_leak_detected =
                                   detect_pii_leak_in_response(
                                       get_blocked_response, tok[turn.sid]),
                               !.response = masked_response,
                               !.content = unmask(tok[turn.sid],
                                                  masked_response)]
    /\ flagged' = [flagged EXCEPT ![turn.sid] = @ \cup {turn.masked}]
    /\ UNCHANGED <<tok, vault, history, llm, last, firstTok, dets, merged,
                   encrypted_profiles, forget, workers>>

\* routes/chat.py 203-219 and chat_async 146-161: the stored messages are
\* read, the conversation is built and the completion API is called
ChatSend ==
    /\ turn.pc = "masked"
    /\ ~is_jailbreak_attempt(turn.masked)
    /\ llm' = [sid |-> turn.sid,
               messages |->
                   build_conversation(Take(history[turn.sid], HISTORY_LIMIT),
                                      sanitize_input(turn.masked)),
               originals |->
                   {tok[turn.sid].token_to_value[i].val.original :
                       i \in 1..Len(tok[turn.sid].token_to_value)}]
    /\ turn' = [turn EXCEPT !.pc = "called", !.called = TRUE]
    /\ UNCHANGED <<tok, vault, history, flagged, last, firstTok, dets, merged,
                   encrypted_profiles, forget, workers>>

\* the completion call fails after the user's message was already stored
ChatLLMFailAfterAppend ==
    /\ turn.pc = "called"
    /\ history' = [history EXCEPT ![turn.sid] =
                      Append(@, [role |-> "user", content |-> turn.masked])]
    /\ turn' = [turn EXCEPT !.pc = "done", !.error = TRUE]
    /\ UNCHANGED <<tok, vault, llm, flagged, last, firstTok, dets, merged,
                   encrypted_profiles, forget, workers>>

\* the completion call fails or times out: chat_async raises LLMException,
\* the route's except turns it into HTTP 500 before any db.add_message
ChatLLMFail ==
    /\ turn.pc = "called"
    /\ turn' = [turn EXCEPT !.pc = "done", !.error = TRUE]
    /\ UNCHANGED <<tok, vault, history, llm, flagged, last, firstTok, dets,
                   merged,
                   encrypted_profiles, forget, workers>>

\* the completion arrives: validator, leak check, unmask
ChatReceive(reply) ==
    /\ turn.pc = "called"
    /\ \E masked_response \in
           {sanitize_response(validate_sanitize(reply), tok[turn.sid])} :
          turn' = [turn EXCEPT !.pc = "answered", !.reply = reply,
                               !.pii_leak_detected =
                                   detect_pii_leak_in_response(
                                       validate_sanitize(reply),
                                       tok[turn.sid]),
                               !.response = masked_response,
                               !.content = unmask(tok[turn.sid],
                                                  masked_response)]
    /\ UNCHANGED <<tok, vault, history, llm, flagged, last, firstTok, dets,
                   merged,
                   encrypted_profiles, forget, workers>>

\* routes/chat.py 234-251: db.add_message for the user's masked message and
\* for the masked response; the response is returned
ChatSave ==
    /\ turn.pc = "answered"
    /\ history' = [history EXCEPT ![turn.sid] =
                      @ \o <<[role |-> "user", content |-> turn.masked],
                             [role |-> "assistant",
                              content |-> turn.response]>>]
    /\ turn' = [turn EXCEPT !.pc = "done"]
    /\ UNCHANGED <<tok, vault, llm, flagged, last, firstTok, dets, merged,
                   encrypted_profiles, forget, workers>>

NextChat ==
    \/ \E message \in ChatTexts : \E ents \in SpacyEnts(preprocess(message)) :
          ChatBegin("A", message, ents)
    \/ \E stage \in {"mask", "store"} :
          ChatBeginFail("A", <<"Alice">>, <<>>, stage)
    \/ ChatRefuse
    \/ ChatSend
    \/ \E reply \in LLMReplies : ChatReceive(reply)
    \/ ChatLLMFail
    \/ ChatSave
    \* a view of the session by a user whose saved profile holds the name
    \* "User" and an e-mail address
    \/ \E name \in {<<"User">>} :
          RecreateFromProfile("A", [name |-> name, college |-> <<>>,
                                    email |-> <<"bob@mit.edu">>])

SpecChat == InitState /\ [][NextChat]_vars

(***************************************************************************)
(* SpecExpiry: turns of POST /api/chat on one session while the vault's    *)
(* keys expire; the spaCy model reports nothing.                           *)
(***************************************************************************)
NextExpiry ==
    \/ \E message \in {<<"Alice">>, <<"Acme">>} : ChatBegin("A", message, <<>>)
    \/ ChatSend
    \/ \E reply \in {<<"[", "USER", "_", "1", "]">>} : ChatReceive(reply)
    \/ ChatSave
    \/ Tick

SpecExpiry == InitState /\ [][NextExpiry]_vars

(***************************************************************************)
(* SpecDeadline: turns of POST /api/chat that the prompt shield lets       *)
(* through, with the scheduling the event                                  *)
(* loop gives: a step of the route coroutine that is ready is taken        *)
(* (weak fairness); the completion API answers or fails when it does, if   *)
(* ever: `await self.async_client.chat.completions.create(...)` is given   *)
(* no timeout and the route does not bound the wait.                       *)
(***************************************************************************)
NextDeadline ==
    \/ \E message \in {<<"Alice">>, <<"Acme">>, <<"Alice", " ", "Alice">>} :
          ChatBegin("A", message, <<>>)
    \/ ChatSend
    \/ \E reply \in {<<"[", "USER", "_", "1", "]">>, <<"Alice">>} :
          ChatReceive(reply)
    \/ ChatLLMFail
    \/ ChatSave

SpecDeadline ==
    /\ InitState
    /\ [][NextDeadline]_vars
    /\ WF_vars(ChatSend)
    /\ WF_vars(ChatSave)

(***************************************************************************)
(* SpecWorkers: turns of session "A" on two worker processes.  Each        *)
(* process has its own _pipelines cache; the vault is the one key-value    *)
(* store they share.  A turn runs from get_masking_pipeline to             *)
(* pipeline.mask without leaving its process, calls the store twice        *)
(* (get_mappings, store_mappings) and takes no lock, so the turns of two   *)
(* processes interleave between those calls.  The rest of the turn, from   *)
(* the completion call to db.add_message, writes neither the vault nor     *)
(* the tokenizer (ChatSend to ChatSave).                                   *)
(***************************************************************************)
Workers == {"w1", "w2"}

\* the turn of worker w up to pipeline.mask: the cached pipeline, then
\* vault.get_mappings (None under a fault of the store), load, mask.
\* loaded is token_to_value as mask found it, minted what mask added, fault
\* the condition of the store at get_mappings,
\* overlapped whether a turn of the other process was in flight meanwhile
WorkerBegin(w, message, fault) ==
    /\ workers[w].pc \in {"idle", "stored"}
    /\ \E existing_mappings \in {IF fault = "none" THEN get_mappings(vault, "A")
                                 ELSE <<>>} :
       \E L \in {IF existing_mappings # <<>>
                 THEN load_mappings(workers[w].tk, existing_mappings)
                 ELSE workers[w].tk} :
       \E r \in {mask(L, message, <<>>)} :
          /\ \A ty \in EntityTypes : r.tk.type_counters[ty] <= MaxCounter
          /\ workers' =
               [v \in Workers |->
                  IF v = w
                  THEN [pc |-> "masked", tk |-> r.tk, fault |-> fault,
                        masked |-> r.masked_text,
                        loaded |-> L.token_to_value,
                        minted |-> {r.tk.token_to_value[i] :
                                      i \in {j \in 1..Len(r.tk.token_to_value) :
                                               ~DictHas(L.token_to_value,
                                                        r.tk.token_to_value[j].key)}},
                        overlapped |-> \E u \in Workers \ {w} :
                                          workers[u].pc = "masked"]
                  ELSE [workers[v] EXCEPT
                           !.overlapped = @ \/ workers[v].pc = "masked"]]
    /\ UNCHANGED <<tok, vault, history, turn, llm, flagged, last, firstTok,
                   dets, merged, encrypted_profiles, forget>>

\* the turn of worker w at vault.store_mappings(session_id,
\* pipeline.export_session_mappings())
WorkerStore(w) ==
    /\ workers[w].pc = "masked"
    /\ vault' = store_mappings(vault, "A", export_mappings(workers[w].tk))
    /\ workers' = [workers EXCEPT ![w].pc = "stored"]
    /\ UNCHANGED <<tok, history, turn, llm, flagged, last, firstTok, dets,
                   merged, encrypted_profiles, forget>>

NextWorkers ==
    \/ \E w \in Workers, message \in {<<"Alice">>, <<"Bob">>},
          fault \in {"none", "unreachable"} : WorkerBegin(w, message, fault)
    \/ \E w \in Workers : WorkerStore(w)
    \/ Tick

SpecWorkers == InitState /\ [][NextWorkers]_vars

(***************************************************************************)
(* SpecTurns: two concurrent turns of POST /api/chat on session "A", down  *)
(* to their two db.add_message calls.  Each call is awaited               *)
(* (messages.insert_one), so the other turn runs between the two calls of  *)
(* a turn; the route takes no lock.  A stored message carries, besides     *)
(* role and content, the turn that wrote it; get_session_messages returns  *)
(* the messages by timestamp, the order of the calls.                      *)
(***************************************************************************)
\* routes/chat.py 204-251: the history read, the completion awaited and
\* checked, then `await db.add_message(session_id, "user", ...)`
WorkerAddUser(w) ==
    /\ workers[w].pc = "stored"
    /\ Len(history["A"]) < MaxHist
    /\ history' = [history EXCEPT !["A"] =
                      Append(@, [role |-> "user",
                                 content |-> workers[w].masked,
                                 turn |-> w])]
    /\ workers' = [workers EXCEPT ![w].pc = "user_added"]
    /\ UNCHANGED <<tok, vault, turn, llm, flagged, last, firstTok, dets,
                   merged, encrypted_profiles, forget>>

\* routes/chat.py 253-260: `await db.add_message(session_id, "assistant",
\* masked_response, ...)`
WorkerAddAssistant(w, masked_response) ==
    /\ workers[w].pc = "user_added"
    /\ Len(history["A"]) < MaxHist
    /\ history' = [history EXCEPT !["A"] =
                      Append(@, [role |-> "assistant",
                                 content |-> masked_response,
                                 turn |-> w])]
    /\ workers' = [workers EXCEPT ![w].pc = "done"]
    /\ UNCHANGED <<tok, vault, turn, llm, flagged, last, firstTok, dets,
                   merged, encrypted_profiles, forget>>

NextTurns ==
    \/ \E w \in Workers, message \in {<<"Alice">>, <<"Bob">>},
          fault \in {"none", "unreachable"} :
          workers[w].pc = "idle" /\ WorkerBegin(w, message, fault)
    \/ \E w \in Workers : WorkerStore(w)
    \/ \E w \in Workers : WorkerAddUser(w)
    \/ \E w \in Workers,
          masked_response \in {<<"Hello">>, <<"[", "USER", "_", "1", "]">>} :
          WorkerAddAssistant(w, masked_response)

SpecTurns == InitState /\ [][NextTurns]_vars

(***************************************************************************)
(* SpecEngines: pipeline.mask while detection engines fail.                *)
(***************************************************************************)
\* MaskingPipeline.mask with one try block around the three engines: any
\* failure empties all three results
mask_engines_one_try(T, text, ents, raises) ==
    IF text = <<>> \/ Strip(text) = <<>>
    THEN [tk |-> T, masked_text |-> text, used |-> {}]
    ELSE LET cleaned_text == preprocess(text)
             ner_entities == IF raises # {} THEN <<>> ELSE ner_detect(ents)
             regex_entities == IF raises # {} THEN <<>>
                               ELSE regex_detect(cleaned_text, 0)
             fuzzy_entities == IF raises # {} THEN <<>>
                               ELSE fuzzy_detect(cleaned_text)
         IN mask_text(T, text, merge_and_score(ner_entities, regex_entities,
                                               fuzzy_entities))

\* MaskingPipeline.mask when the engines named in raises raise an exception
\* in detect: _run_ner, _run_regex and _run_fuzzy each catch it and return []
mask_engines(T, text, ents, raises) ==
    IF text = <<>> \/ Strip(text) = <<>>
    THEN [tk |-> T, masked_text |-> text, used |-> {}]
    ELSE LET cleaned_text == preprocess(text)
             ner_entities == IF "ner" \in raises THEN <<>>
                             ELSE ner_detect(ents)
             regex_entities == IF "regex" \in raises THEN <<>>
                               ELSE regex_detect(cleaned_text, 0)
             fuzzy_entities == IF "fuzzy" \in raises THEN <<>>
                               ELSE fuzzy_detect(cleaned_text)
         IN mask_text(T, text, merge_and_score(ner_entities, regex_entities,
                                               fuzzy_entities))

\* pipeline.mask(text) of session s while the engines in raises fail;
\* last.value holds raises and the spaCy entities, last.before the tokenizer
\* as the call found it, last.token the exception that left mask (none)
MaskEngines(s, text, ents, raises) ==
    \E r \in {mask_engines(tok[s], text, ents, raises)} :
       /\ \A ty \in EntityTypes : r.tk.type_counters[ty] <= MaxCounter
       /\ tok' = [tok EXCEPT ![s] = r.tk]
       /\ last' = [Called("mask_engines", s) EXCEPT
                      !.text = text, !.before = tok[s],
                      !.value = <<[raises |-> raises, ents |-> ents]>>,
                      !.result = r.masked_text]
       /\ UNCHANGED <<vault, history, turn, llm, flagged, firstTok, dets,
                      merged, encrypted_profiles, forget, workers>>

NextEngines ==
    \E text \in {<<"Acme", " ", "Bob">>, <<"Alice", " ", "bob@mit.edu">>,
                  <<"Bob", " ", "Bob">>} :
       \E ents \in SpacyEnts(preprocess(text)),
          raises \in {{}, {"ner"}, {"regex"}, {"fuzzy"}} :
          MaskEngines("A", text, ents, raises)

SpecEngines == InitState /\ [][NextEngines]_vars

(***************************************************************************)
(* SpecLockers: one user's calls of POST /api/chat/stream, GET             *)
(* /sessions/{id}, GET /chat/{id}/masked/{mid}, the consent and profile    *)
(* routes and DELETE /api/vault/profile, with MongoDB connected.  Session  *)
(* "A" has a document in db.sessions (it was created by POST /sessions);   *)
(* session "B" is an id the client chose, which chat_stream never inserts. *)
(***************************************************************************)
db_sessions == {"A"}

\* the two lockers block with the profile fetched ahead of the consent test
two_lockers_eager(T, existing_mappings, doc) ==
    LET consent == get_consent(doc)
        has_consent == consent.sync_across_devices \/ consent.remember_me
        profile == get_profile(doc)
        recreated == IF profile = <<>> THEN <<>>
                     ELSE profile_to_session_mappings(profile)
    IN IF existing_mappings # <<>>
       THEN [tk |-> load_mappings(T, existing_mappings), recreated |-> FALSE,
             decrypted |-> profile # <<>>]
       ELSE IF has_consent /\ profile # <<>> /\ recreated # <<>>
       THEN [tk |-> load_mappings(T, recreated), recreated |-> TRUE,
             decrypted |-> TRUE]
       ELSE [tk |-> T, recreated |-> FALSE, decrypted |-> profile # <<>>]

\* the block "Two lockers: ephemeral first; if empty, recreate from profile"
\* of chat_stream, get_session and get_masked_prompt: the tokenizer after it,
\* whether the mappings were recreated, and whether get_profile decrypted
\* the blob
two_lockers(T, existing_mappings, doc) ==
    IF existing_mappings # <<>>
    THEN [tk |-> load_mappings(T, existing_mappings), recreated |-> FALSE,
          decrypted |-> FALSE]
    ELSE LET consent == get_consent(doc)
             has_consent == consent.sync_across_devices \/ consent.remember_me
             profile == get_profile(doc)
             recreated == IF profile = <<>> THEN <<>>
                          ELSE profile_to_session_mappings(profile)
         IN IF has_consent /\ profile # <<>> /\ recreated # <<>>
            THEN [tk |-> load_mappings(T, recreated), recreated |-> TRUE,
                  decrypted |-> TRUE]
            ELSE [tk |-> T, recreated |-> FALSE,
                  decrypted |-> has_consent /\ profile # <<>>]

\* chat_stream up to the StreamingResponse: two lockers, mask, store;
\* last.known is whether the profile was decrypted, last.value the mappings
\* the vault returned (so too in GetSession and GetMaskedPrompt)
StreamBegin(s, message) ==
    /\ turn.pc \in {"idle", "streamed"}
    /\ \E L \in {two_lockers(tok[s], get_mappings(vault, s),
                             encrypted_profiles)} :
       \E r \in {mask(L.tk, message, <<>>)} :
          /\ \A ty \in EntityTypes : r.tk.type_counters[ty] <= MaxCounter
          /\ tok' = [tok EXCEPT ![s] = r.tk]
          /\ vault' = store_mappings(vault, s, export_mappings(r.tk))
          /\ turn' = [IdleTurn EXCEPT !.pc = "streaming", !.sid = s,
                                      !.message = message,
                                      !.masked = r.masked_text,
                                      !.vaultBefore = vault[s],
                                      !.stored = TRUE]
          /\ last' = [Called("chat_stream", s) EXCEPT
                         !.known = L.decrypted,
                         !.value = get_mappings(vault, s)]
    /\ UNCHANGED <<history, llm, flagged, firstTok, dets, merged,
                   encrypted_profiles, forget, workers>>

\* generate(): one chunk of groq.chat_stream arrives, is added to
\* full_response (turn.reply) and is unmasked on its own; turn.content is
\* what the client has received
StreamChunk(chunk) ==
    /\ turn.pc = "streaming"
    /\ ~is_jailbreak_attempt(turn.masked)
    /\ Len(turn.reply) + Len(chunk) <= MaxStreamLen
    /\ turn' = [turn EXCEPT !.reply = @ \o chunk,
                            !.content = @ \o unmask(tok[turn.sid], chunk)]
    /\ UNCHANGED <<tok, vault, history, llm, flagged, last, firstTok, dets,
                   merged, encrypted_profiles, forget, workers>>

\* generate(): the stream ends, "data: [DONE]"
StreamDone ==
    /\ turn.pc = "streaming"
    /\ turn' = [turn EXCEPT !.pc = "streamed"]
    /\ UNCHANGED <<tok, vault, history, llm, flagged, last, firstTok, dets,
                   merged, encrypted_profiles, forget, workers>>

\* GET /sessions/{id}: 404 without a session document; else two lockers (the
\* recreated mappings are stored) and every stored message unmasked
GetSession(s) ==
    IF s \notin db_sessions
    THEN /\ last' = [Called("get_session", s) EXCEPT !.token = <<"404">>]
         /\ UNCHANGED <<tok, vault, history, turn, llm, flagged, firstTok,
                        dets, merged, encrypted_profiles, forget, workers>>
    ELSE \E L \in {two_lockers(tok[s], get_mappings(vault, s),
                               encrypted_profiles)} :
         /\ tok' = [tok EXCEPT ![s] = L.tk]
         /\ vault' = IF L.recreated
                     THEN store_mappings(vault, s, export_mappings(L.tk))
                     ELSE vault
         /\ last' = [Called("get_session", s) EXCEPT
                        !.known = L.decrypted,
                        !.value = get_mappings(vault, s),
                        !.result = [i \in 1..Len(history[s]) |->
                                       unmask(L.tk, history[s][i].content)]]
         /\ UNCHANGED <<history, turn, llm, flagged, firstTok, dets, merged,
                        encrypted_profiles, forget, workers>>

\* GET /chat/{id}/masked/{mid}: two lockers (nothing is stored), then 404
\* when the message is not found, else the assistant message unmasked
GetMaskedPrompt(s) ==
    \E L \in {two_lockers(tok[s], get_mappings(vault, s),
                          encrypted_profiles)} :
       /\ tok' = [tok EXCEPT ![s] = L.tk]
       /\ last' = IF history[s] = <<>>
                  THEN [Called("get_masked_prompt", s) EXCEPT
                           !.known = L.decrypted,
                           !.value = get_mappings(vault, s),
                           !.token = <<"404">>]
                  ELSE [Called("get_masked_prompt", s) EXCEPT
                           !.known = L.decrypted,
                           !.value = get_mappings(vault, s),
                           !.result =
                              unmask(L.tk,
                                     history[s][Len(history[s])].content)]
       /\ UNCHANGED <<vault, history, turn, llm, flagged, firstTok, dets,
                      merged, encrypted_profiles, forget, workers>>

\* forget_me up to the cursor: delete_profile, then
\* db.sessions.find({"user_id": user_id})
ForgetStart ==
    /\ forget.pc \in {"idle", "returned"}
    /\ encrypted_profiles' = NoDoc
    /\ forget' = [pc |-> "iterating",
                  cursor |-> IF "A" \in db_sessions THEN <<"A">> ELSE <<>>]
    /\ last' = Called("forget_me", "A")
    /\ UNCHANGED <<tok, vault, history, turn, llm, flagged, firstTok, dets,
                   merged, workers>>

\* forget_me, one round of `async for session in cursor`:
\* redis_vault.delete_mappings(sid) and clear_pipeline(sid)
ForgetStep ==
    /\ forget.pc = "iterating"
    /\ forget.cursor # <<>>
    /\ vault' = delete_mappings(vault, Head(forget.cursor))
    /\ tok' = [tok EXCEPT ![Head(forget.cursor)] = NewTokenizer]
    /\ forget' = [forget EXCEPT !.cursor = Tail(@)]
    /\ UNCHANGED <<history, turn, llm, flagged, last, firstTok, dets, merged,
                   encrypted_profiles, workers>>

\* forget_me: the cursor is exhausted, ForgetMeResponse is returned
ForgetReturn ==
    /\ forget.pc = "iterating"
    /\ forget.cursor = <<>>
    /\ forget' = [forget EXCEPT !.pc = "returned"]
    /\ UNCHANGED <<tok, vault, history, turn, llm, flagged, last, firstTok,
                   dets, merged, encrypted_profiles, workers>>

(***************************************************************************)
(* SpecProfile: the persistent profile of one user (vault/profile_vault.py *)
(* and routes/vault.py), with MongoDB connected.                           *)
(***************************************************************************)
\* a call of ProfileVault.store_profile; last.token is the exception raised
\* (none: EncryptionException and VaultException only come from a failing
\* encryption or database)
StoreProfile(profile, consent_remember, consent_sync) ==
    /\ encrypted_profiles' = store_profile(encrypted_profiles, profile,
                                           consent_remember, consent_sync)
    /\ last' = [Called("store_profile", "A") EXCEPT
                   !.known = consent_remember \/ consent_sync,
                   !.token = <<>>]
    /\ UNCHANGED <<tok, vault, history, turn, llm, flagged, firstTok, dets,
                   merged, forget, workers>>

\* PUT /api/vault/profile with a body; a field of the body that is <<>> is
\* None and keeps the stored value.  last.token is the HTTP error.
SaveProfile(body) ==
    LET consent == get_consent(encrypted_profiles)
        stored == get_profile(encrypted_profiles)
        profile == [k \in DOMAIN body |->
                       IF body[k] # <<>> THEN Strip(body[k])
                       ELSE IF stored = <<>> THEN <<>> ELSE Strip(stored[k])]
        error == IF ~consent.remember_me /\ ~consent.sync_across_devices
                 THEN <<"403">>
                 ELSE IF \A k \in DOMAIN body : body[k] = <<>> THEN <<"400">>
                 ELSE IF \A k \in DOMAIN profile : profile[k] = <<>>
                 THEN <<"400">>
                 ELSE <<>>
    IN /\ encrypted_profiles' =
              IF error # <<>> THEN encrypted_profiles
              ELSE store_profile(encrypted_profiles, profile,
                                 consent.remember_me,
                                 consent.sync_across_devices)
       /\ last' = [Called("save_profile", "A") EXCEPT !.token = error]
       /\ UNCHANGED <<tok, vault, history, turn, llm, flagged, firstTok, dets,
                      merged, forget, workers>>

\* PUT /api/vault/consent with both flags given: update_consent, then the
\* answer is get_consent's; last.value is that answer
UpdateConsent(remember_me, sync_across_devices) ==
    /\ encrypted_profiles' = update_consent(encrypted_profiles, remember_me,
                                            sync_across_devices)
    /\ last' = [Called("update_consent", "A") EXCEPT
                   !.value = <<get_consent(encrypted_profiles')>>]
    /\ UNCHANGED <<tok, vault, history, turn, llm, flagged, firstTok, dets,
                   merged, forget, workers>>

\* DELETE /api/vault/profile: delete_profile
DeleteProfile ==
    /\ encrypted_profiles' = NoDoc
    /\ last' = Called("delete_profile", "A")
    /\ UNCHANGED <<tok, vault, history, turn, llm, flagged, firstTok, dets,
                   merged, forget, workers>>

NextProfile ==
    \/ \E profile \in Profiles, consent_remember, consent_sync \in BOOLEAN :
          StoreProfile(profile, consent_remember, consent_sync)
    \/ \E body \in Profiles \cup {[name |-> <<"Alice">>, college |-> <<>>,
                                   email |-> <<>>]} : SaveProfile(body)
    \/ \E remember_me, sync_across_devices \in BOOLEAN :
          UpdateConsent(remember_me, sync_across_devices)
    \/ DeleteProfile

SpecProfile == InitState /\ [][NextProfile]_vars

\* the routes of SpecLockers, in any order
(***************************************************************************)
(* SpecViews: the sessions of user "u1" (turns of POST /api/chat on        *)
(* session "A", which has a document in db.sessions with user_id "u1", and *)
(* on the client-chosen id "B", which has none), read back through GET     *)
(* /sessions/{id} by "u1" and through GET /chat/{id}/masked/{mid} by "u1"  *)
(* and by "u2", an authenticated user with no session and no profile,      *)
(* while the vault's keys expire and the server process is restarted.      *)
(***************************************************************************)
\* the server process starts anew: the module-level cache _pipelines is
\* empty again; the vault and MongoDB are outside the process
RestartProcess ==
    /\ turn.pc \in {"idle", "done"}
    /\ tok # [s \in Sessions |-> NewTokenizer]
    /\ tok' = [s \in Sessions |-> NewTokenizer]
    /\ last' = Called("restart", "A")
    /\ UNCHANGED <<vault, history, turn, llm, flagged, firstTok, dets, merged,
                   encrypted_profiles, forget, workers>>

\* GET /chat/{id}/masked/{mid} called by user_id for the last stored
\* exchange of session s: two lockers with the caller's profile document
\* (nothing is stored), 404 when there is no message, else the user
\* message and the assistant message of the exchange unmasked
\* (original_message, ai_unmasked_response)
GetMaskedPromptAs(user_id, s) ==
    \E L \in {two_lockers(tok[s], get_mappings(vault, s),
                          IF user_id = "u1" THEN encrypted_profiles
                          ELSE NoDoc)} :
       /\ tok' = [tok EXCEPT ![s] = L.tk]
       /\ last' = IF Len(history[s]) < 2
                  THEN [Called("get_masked_prompt", s) EXCEPT
                           !.user_id = user_id,
                           !.token = <<"404">>]
                  ELSE [Called("get_masked_prompt", s) EXCEPT
                           !.user_id = user_id,
                           !.before = tok[s],
                           !.result =
                              [i \in 1..2 |->
                                  unmask(L.tk,
                                         history[s][Len(history[s]) - 2 + i]
                                             .content)]]
       /\ UNCHANGED <<vault, history, turn, llm, flagged, firstTok, dets,
                      merged, encrypted_profiles, forget, workers>>

NextViews ==
    \/ \E s \in Sessions : history[s] = <<>> /\ ChatBegin(s, <<"MIT">>, <<>>)
    \/ ChatSend
    \/ \E reply \in {<<"[", "COLLEGE", "_", "1", "]">>} : ChatReceive(reply)
    \/ ChatSave
    \/ Tick
    \/ RestartProcess
    \/ UpdateConsent(TRUE, TRUE)
    \/ \E body \in {[name |-> <<"Bob">>, college |-> <<"MIT">>,
                      email |-> <<"bob@mit.edu">>]} : SaveProfile(body)
    \/ GetSession("A")
    \/ \E user_id \in {"u1", "u2"}, s \in Sessions :
          GetMaskedPromptAs(user_id, s)

SpecViews == InitState /\ [][NextViews]_vars

NextLockers ==
    \/ \E s \in Sessions, message \in {<<"Alice">>} : StreamBegin(s, message)
    \/ \E chunk \in {<<"[", "USER">>, <<"_", "1", "]">>} : StreamChunk(chunk)
    \/ StreamDone
    \/ \E s \in Sessions : GetSession(s)
    \/ \E s \in Sessions : GetMaskedPrompt(s)
    \/ \E remember_me, sync_across_devices \in BOOLEAN :
          UpdateConsent(remember_me, sync_across_devices)
    \/ \E body \in {[name |-> <<"Bob">>, college |-> <<"MIT">>,
                      email |-> <<"bob@mit.edu">>]} : SaveProfile(body)
    \/ ForgetStart
    \/ ForgetStep
    \/ ForgetReturn

SpecLockers == InitState /\ [][NextLockers]_vars

\* C1: no message of a completion request holds an original of the mappings
\* the session's pipeline has when the request is made.
C1_NoOriginalSent ==
    \A i \in 1..Len(llm.messages) :
        \A v \in llm.originals : ~Contains(llm.messages[i], v)

\* C8: a turn whose message the prompt shield flags returns the refusal of
\* get_blocked_response and makes no completion request.
C8_JailbreakRefused ==
    (turn.pc = "done" /\ turn.jailbreak) =>
        (turn.content = get_blocked_response /\ ~turn.called)

\* C9: a turn whose message the prompt shield flags leaves the session's
\* vault entry, TTL included, as it found it.
C9_JailbreakNoVaultWrite ==
    (turn.pc = "done" /\ turn.jailbreak) => vault[turn.sid] = turn.vaultBefore

\* C10: no message of a completion request is a prompt the prompt shield
\* flagged in that session.
C10_FlaggedNeverSent ==
    \A i \in 1..Len(llm.messages) : llm.messages[i] \notin flagged[llm.sid]

\* C11: a completion request is made only by a turn whose
\* vault.store_mappings has returned; a turn in which masking or the vault
\* write raised ends without one.
C11_StoreBeforeCall ==
    [][/\ llm' # llm => (turn.stored /\ ~turn.error)
       /\ turn'.called => turn'.stored]_vars

\* a turn ended by a failed vault write, without a completion request, after
\* an earlier turn of the session had made one
C11_Witness ==
    /\ turn.pc = "done"
    /\ turn.error
    /\ ~turn.stored
    /\ ~turn.called
    /\ llm.messages # <<>>

\* C12: a turn whose completion call failed ends with the session's stored
\* messages as they were when the turn began.
C12_FailedCallNoHistory ==
    (turn.pc = "done" /\ turn.called /\ turn.error) =>
        Len(history[turn.sid]) = turn.histLen

\* a turn of a session that already has stored messages ended by a failed
\* completion call
C12_Witness ==
    /\ turn.pc = "done"
    /\ turn.called
    /\ turn.error
    /\ turn.histLen > 0

\* C13: the assistant message a turn appends to the stored messages is the
\* masked response after the leak check, and no original of more than 2
\* characters that the session maps occurs in it, in any letter case.
C13_StoredResponseClean ==
    [][(turn.pc = "answered" /\ turn'.pc = "done") =>
          LET stored == history'[turn.sid][Len(history'[turn.sid])]
              T == tok[turn.sid]
          IN /\ stored.role = "assistant"
             /\ stored.content = turn.response
             /\ \A i \in 1..Len(T.token_to_value) :
                   LET original == T.token_to_value[i].val.original IN
                   StrLen(original) > 2 =>
                       ~Contains(Lower(stored.content), Lower(original))]_vars

\* C14: every known original of more than 2 characters that occurs in the
\* completion, in any letter case, is rewritten into its own token in the
\* masked response, also an original shaped like an e-mail address, and the
\* unmasked response shows the value again.
C14_LeakRewrittenToToken ==
    [][(turn.pc = "called" /\ turn'.pc = "answered") =>
          LET T == tok[turn.sid] IN
          \A i \in 1..Len(T.token_to_value) :
             LET original == T.token_to_value[i].val.original IN
             (StrLen(original) > 2
                 /\ Contains(Lower(turn'.reply), Lower(original))) =>
                 /\ Contains(turn'.response, T.token_to_value[i].key)
                 /\ ~Contains(Lower(turn'.response), Lower(original))
                 /\ Contains(Lower(turn'.content), Lower(original))]_vars

\* C15: unmask returns for every text and every tokenizer state, leaves the
\* tokenizer's maps and counters as they were, and keeps every occurrence of
\* a token-shaped substring the session has no mapping for.
C15_UnmaskTotal ==
    [][(last' # last /\ last'.op = "unmask") =>
          LET T == tok[pipeline_key(last'.sid)]
              Occ(t, pat) == Cardinality({i \in 0..Len(t) : MatchAt(t, pat, i)})
          IN /\ tok' = tok
             /\ last'.result \in Seq(STRING)
             /\ \A ty \in EntityTypes, n \in 1..MaxCounter :
                   LET token == TokenStr(TOKEN_PREFIXES(ty), n) IN
                   ~DictHas(T.token_to_value, token) =>
                       Occ(last'.result, token) = Occ(last'.text, token)]_vars

\* an unmask call that replaced [USER_1] next to the unmapped [ORG_1]
C15_Witness ==
    /\ last.op = "unmask"
    /\ last.text = <<"[", "ORG", "_", "1", "]", " ", "[", "USER", "_", "1", "]">>
    /\ ~DictHas(tok[last.sid].token_to_value, TokenStr("ORG", 1))
    /\ DictHas(tok[last.sid].token_to_value, TokenStr("USER", 1))
    /\ last.result = <<"[", "ORG", "_", "1", "]", " ", "Alice">>

\* C16: once TtlTicks or more ticks have passed since the session's last
\* store_mappings or refresh_ttl, get_mappings finds nothing; and a key just
\* written by store_mappings has the full time to live.
C16_TtlBound ==
    /\ \A s \in Sessions :
          vault[s].age >= TtlTicks =>
              (~vault[s].present /\ get_mappings(vault, s) = <<>>)
    /\ last.op \in {"store", "recreate"} =>
          (vault[last.sid].present /\ vault[last.sid].ttl = TtlTicks)

\* more than the TTL after a store of mappings, with nothing left to read
C16_Witness ==
    /\ last.op = "tick"
    /\ vault["A"].age > TtlTicks
    /\ tok["A"].token_to_value # <<>>
    /\ get_mappings(vault, "A") = <<>>

\* C17: a turn that starts after the session's vault entry has expired writes
\* to the vault only mappings of values that occur in its own message, and
\* leaves in the response every token of a value minted before the expiry.
C17_ExpiredNotRestored ==
    LET s == turn.sid
        expired == /\ ~turn.vaultBefore.present
                   /\ turn.vaultBefore.age >= TtlTicks
        OfThisTurn(original) ==
            Contains(Lower(turn.message), Lower(original))
    IN /\ (turn.pc = "masked" /\ expired) =>
              \A i \in 1..Len(vault[s].mappings) :
                  OfThisTurn(vault[s].mappings[i].val.original)
       /\ (turn.pc = "answered" /\ expired) =>
              \A i \in 1..Len(tok[s].token_to_value) :
                  LET m == tok[s].token_to_value[i] IN
                  (Contains(turn.response, m.key)
                      /\ ~OfThisTurn(m.val.original)) =>
                      Contains(turn.content, m.key)

\* C18: get_mappings returns absent only when the session's key is missing or
\* expired; when the store is unreachable, or the ciphertext is there and
\* does not decrypt, the caller gets an error.
C18_GetMappingsPropagates ==
    last.op = "get" =>
        LET fault == last.value[1]
            present == vault[last.sid].present
            raised == last.token # <<>>
        IN /\ last.known => (~present /\ fault # "unreachable")
           /\ (fault = "unreachable" \/ (fault = "corrupt" /\ present)) => raised

\* C19: a store_profile call with both consent flags false is rejected with
\* an error and leaves the stored profile record as it was.
C19_StoreNeedsConsent ==
    [][\A profile \in Profiles :
          StoreProfile(profile, FALSE, FALSE) =>
              (last'.token # <<>>
                  /\ encrypted_profiles' = encrypted_profiles)]_vars

\* C20: after update_consent with remember_me = r and sync_across_devices = s
\* get_consent returns r and s, and the encrypted blob is the one of before.
C20_ConsentRoundTrip ==
    [][\A r, s \in BOOLEAN :
          UpdateConsent(r, s) =>
              /\ get_consent(encrypted_profiles') =
                    [remember_me |-> r, sync_across_devices |-> s]
              /\ encrypted_profiles'.encrypted_blob =
                    encrypted_profiles.encrypted_blob]_vars

\* C28: for every text pipeline.mask is given and every entity it emits, the
\* characters of the text that the entity's token replaces are the entity's
\* text.
C28_SpliceWhereDetected ==
    last.op = "mask" =>
        LET cleaned_text == preprocess(last.text) IN
        \A ents \in SpacyEnts(cleaned_text) :
           LET scored_entities ==
                   merge_and_score(ner_detect(ents),
                                   regex_detect(cleaned_text, 0),
                                   fuzzy_detect(cleaned_text))
           IN \A i \in 1..Len(scored_entities) :
                 LET e == scored_entities[i] IN
                 /\ e.end <= Len(last.text)
                 /\ SubSeq(last.text, e.start + 1, e.end) = e.text

\* C23: the mappings an /api/chat turn loads into the session's pipeline and
\* masks and unmasks with never include a mapping recreated from the user's
\* persistent profile, whatever was called on the session before.
C23_ChatSessionIsolating ==
    (turn.pc = "masked" /\ last.op = "recreate" /\ last.sid = turn.sid) =>
        LET T == tok[turn.sid] IN
        \A i \in 1..Len(last.result) :
           ~(/\ DictHas(T.token_to_value, last.result[i].key)
             /\ DictVal(T.token_to_value, last.result[i].key).original =
                   last.result[i].val.original)

\* C26: every /api/chat turn that has started eventually ends, with a
\* response or an error, even if the completion API never answers.
C26_TurnEnds ==
    (turn.pc \in {"masked", "called", "answered"}) ~> (turn.pc = "done")

\* C21: when forget_me returns, the ephemeral vault holds no mappings entry
\* for any session of the user, through whichever endpoint the session was
\* used and whatever turns ran meanwhile.
C21_ForgetClearsVault ==
    [][(forget.pc = "iterating" /\ forget'.pc = "returned") =>
          \A s \in Sessions : ~vault'[s].present]_vars

\* C22: with a stored profile of name, college and e-mail, a consent flag
\* true (remember_me, or sync_across_devices as the user last set it) and no
\* mappings in the session's vault entry, the first pipeline use of the session by chat_stream, get_session
\* or get_masked_prompt leaves [USER_1], [COLLEGE_2] and [EMAIL_3] bound to
\* the three values in the session's tokenizer, and a chat_stream message
\* that holds another name is masked with the next token, [USER_2].
C22_RecreatedFromProfile ==
    [][\A s \in Sessions :
          LET consent == get_consent(encrypted_profiles)
              profile == get_profile(encrypted_profiles)
              Bound(T, token, original) ==
                  /\ DictHas(T.token_to_value, token)
                  /\ DictVal(T.token_to_value, token).original = original
          IN (/\ tok[s] = NewTokenizer
              /\ get_mappings(vault, s) = <<>>
              /\ \/ consent.remember_me
                 \/ consent.sync_across_devices
                 \/ encrypted_profiles.sync_across_devices = {TRUE}
              /\ profile # <<>>
              /\ \A k \in DOMAIN profile : profile[k] # <<>>
              /\ \/ (s \in db_sessions /\ GetSession(s))
                 \/ GetMaskedPrompt(s)
                 \/ StreamBegin(s, <<"Alice">>)) =>
             /\ Bound(tok'[s], TokenStr("USER", 1), profile.name)
             /\ Bound(tok'[s], TokenStr("COLLEGE", 2), profile.college)
             /\ Bound(tok'[s], TokenStr("EMAIL", 3), profile.email)
             /\ (turn' # turn /\ profile.name # <<"Alice">>) =>
                    turn'.masked = TokenStr("USER", 2)]_vars

\* C25: what chat_stream has emitted to the client is unmask applied to the
\* raw fragments received so far, joined together.
C25_StreamUnmaskEquivalent ==
    turn.pc \in {"streaming", "streamed"} =>
        turn.content = unmask(tok[turn.sid], turn.reply)

\* C24: a turn of the session that starts when the turns of the other worker
\* process have completed their vault.store, and the session's vault entry
\* is alive, has in its tokenizer, before it masks, every mapping the other
\* worker's last turn minted.
C24_SecondTurnSeesFirst ==
    [][\A w \in Workers, u \in Workers :
          (/\ u # w
           /\ workers[u].pc = "stored"
           /\ workers[w].pc # "masked"
           /\ workers'[w].pc = "masked"
           /\ vault["A"].present) =>
          \A m \in workers[u].minted :
             /\ DictHas(workers'[w].loaded, m.key)
             /\ DictVal(workers'[w].loaded, m.key).original = m.val.original]_vars

\* C29: once a token is bound to a value in the session (in a process's
\* pipeline or in the vault entry), no later step binds it to a different
\* value.  Stated for the steps taken while every token has one value, no
\* turn of the session is in flight or has overlapped another, and the
\* store has answered every get_mappings.
C29_TokenBoundOnce ==
    [][LET Bindings(W, V) ==
              UNION {{<<W[w].tk.token_to_value[i].key,
                        W[w].tk.token_to_value[i].val.original>> :
                         i \in 1..Len(W[w].tk.token_to_value)} : w \in Workers}
              \cup {<<V["A"].mappings[i].key, V["A"].mappings[i].val.original>> :
                       i \in 1..Len(V["A"].mappings)}
       IN (/\ \A w \in Workers : /\ workers[w].pc # "masked"
                                  /\ ~workers[w].overlapped
                                  /\ workers[w].fault = "none"
                                  /\ workers'[w].fault = "none"
           /\ \A b, c \in Bindings(workers, vault) :
                 b[1] = c[1] => b[2] = c[2]) =>
             \A b \in Bindings(workers, vault), c \in Bindings(workers', vault') :
                b[1] = c[1] => b[2] = c[2]]_vars

\* C30: when the later of two overlapping turns of the session has stored,
\* the vault entry holds every mapping either turn minted, and the two turns
\* have not bound one token to two values.
C30_NoLostUpdate ==
    [][\A w \in Workers, u \in Workers :
          (/\ u # w
           /\ workers[w].pc = "masked"
           /\ workers'[w].pc = "stored"
           /\ workers[u].pc = "stored"
           /\ workers[w].overlapped
           /\ workers[u].overlapped) =>
          /\ \A m \in workers[w].minted \cup workers[u].minted :
                /\ DictHas(vault'["A"].mappings, m.key)
                /\ DictVal(vault'["A"].mappings, m.key).original = m.val.original
          /\ \A m \in workers[w].minted, n \in workers[u].minted :
                m.key = n.key => m.val.original = n.val.original]_vars

C32_EngineFailureIsEmpty ==
    last.op = "mask_engines" =>
        LET v == last.value[1]
            cleaned_text == preprocess(last.text)
            Healthy(engine) ==
                CASE engine = "ner" -> ner_detect(v.ents)
                  [] engine = "regex" -> regex_detect(cleaned_text, 0)
                  [] engine = "fuzzy" -> fuzzy_detect(cleaned_text)
            Result(engine) ==
                IF engine \in v.raises THEN <<>> ELSE Healthy(engine)
            expected == mask_text(last.before, last.text,
                                  merge_and_score(Result("ner"),
                                                  Result("regex"),
                                                  Result("fuzzy")))
        IN /\ last.token = <<>>
           /\ last.result = expected.masked_text
           /\ tok[last.sid] = expected.tk

\* the regex engine failed on a text with an e-mail address while the fuzzy
\* engine found the name: the name is masked, the address is not
C32_Witness ==
    /\ last.op = "mask_engines"
    /\ last.text = <<"Alice", " ", "bob@mit.edu">>
    /\ last.value[1].raises = {"regex"}
    /\ last.result = <<"[", "USER", "_", "1", "]", " ", "bob@mit.edu">>

\* C33: loading the export of a session's tokenizer T into a fresh tokenizer
\* gives the same token-to-original and value-to-token maps, and a value the
\* loaded tokenizer does not know is minted, under any entity type, with a
\* token that is not among the loaded mappings.
C33_LoadExportUnique ==
    LET T == tok["A"]
        loaded == load_mappings(NewTokenizer, export_mappings(T))
        Items(d) == {d[i] : i \in 1..Len(d)}
    IN /\ Items(loaded.token_to_value) = Items(T.token_to_value)
       /\ Items(loaded.value_to_token) = Items(T.value_to_token)
       /\ \A entity_type \in EntityTypes, value \in GenValues :
             ~DictHas(loaded.value_to_token, Normalize(value)) =>
                ~DictHas(loaded.token_to_value,
                         generate_token(loaded, entity_type, value).token)

C36_EmittedSpanCoversGroup ==
    (/\ last.op = "merge"
     /\ \A i \in 1..Len(AllDets) : AllDets[i].start < AllDets[i].end) =>
        \A g \in {group_overlapping(AllDets)[i] :
                     i \in 1..Len(group_overlapping(AllDets))} :
            \A best \in {score_group(g)} :
                (best # <<>>
                 /\ FracGe(best[1].confidence, Frac(MIN_CONFIDENCE))) =>
                    \A i \in 1..Len(g) :
                        \A k \in g[i].start..(g[i].end - 1) :
                            best[1].start <= k /\ k < best[1].end

\* C37: each entity of the fuzzy engine carries the offsets of the word
\* occurrence it comes from: the i-th word of the text, when it matches a
\* known entity, gives an entity that starts where that i-th word starts
\* and ends where it ends, also when the same word stands earlier in the
\* text.
C37_FuzzyOffsetsOfOccurrence ==
    last.op = "mask_engines" =>
        LET text == preprocess(last.text)
            words == Split(text)
            entities == fuzzy_detect(text)
            Offset(i) == Len(Join(SubSeq(words, 1, i - 1)))
                         + (IF i > 1 THEN 1 ELSE 0)
        IN \A i \in 1..Len(words) :
              (StrLen(words[i]) >= 3 /\ find_best_match(words[i]).score > 0)
              => \E k \in 1..Len(entities) :
                    /\ entities[k].text = words[i]
                    /\ entities[k].start = Offset(i)
                    /\ entities[k].end = Offset(i) + Len(words[i])

\* C35: whenever the leak check of a turn detects a leak in the response of
\* the completion API, an entry for it is appended to the audit trail
\* (AuditLogger.logs) during that turn: the turn ends with an entry besides
\* the STORE entry it wrote before the completion call.
C35_LeakIsAudited ==
    (/\ turn.pc = "done"
     /\ turn.called
     /\ turn.pii_leak_detected) =>
        \E i \in 1..Len(turn.audit) : turn.audit[i] # "STORE"

\* C38: an authenticated user never receives, through get_masked_prompt, an
\* original value of a session of another user, whether or not the session
\* has a document in db.sessions: what "u2" is returned for a session of
\* "u1" holds no original of that session's mappings.
C38_NoOriginalToOtherUser ==
    (/\ last.op = "get_masked_prompt"
     /\ last.user_id = "u2") =>
        \A i \in 1..Len(last.result) :
            \A j \in 1..Len(vault[last.sid].mappings) :
                ~Contains(last.result[i],
                          vault[last.sid].mappings[j].val.original)

\* C39: in the stored history of a session every assistant message comes
\* right after the user message of the same turn, however the concurrent
\* turns of the session interleave.
C39_AssistantFollowsItsUser ==
    \A i \in 1..Len(history["A"]) :
        history["A"][i].role = "assistant" =>
            /\ i > 1
            /\ history["A"][i - 1].role = "user"
            /\ history["A"][i - 1].turn = history["A"][i].turn

\* C40: when the vault entry of a session has expired and the user has a
\* stored profile and consent, get_session restores the profile's values in
\* the stored history of the session: every stored user message, which is
\* the token the session gave the college "MIT" of the message, is returned
\* as "MIT", the college of the profile.
C40_ProfileRestoresHistory ==
    (/\ last.op = "get_session"
     /\ last.token = <<>>
     /\ last.value = <<>>
     /\ last.known
     /\ get_profile(encrypted_profiles).college = <<"MIT">>
     /\ history[last.sid] # <<>>
     /\ Len(last.result) = Len(history[last.sid])) =>
        \A i \in 1..Len(history[last.sid]) :
            history[last.sid][i].role = "user" => last.result[i] = <<"MIT">>

====
